---- MODULE Spec2Model ----
(***************************************************************************)
(* Stellars Finance perpetual-trading core: PositionManager (positions and *)
(* orders), MarketManager (open interest, funding), LiquidityPool (shares, *)
(* reserved liquidity, per-position collateral ledger) and the token       *)
(* balances they move.  Every public entry point is one action.  A handler *)
(* is an operator from the contract state to a result [ok, st, ret]; when  *)
(* it panics, st is the partial state reached at the panic and Commit      *)
(* decides what the ledger keeps.                                          *)
(***************************************************************************)
EXTENDS Integers, Sequences, FiniteSets, TLC

\* ------------------------------------------------------------------------
\* Identities
\* ------------------------------------------------------------------------
Traders == {"t1", "t2"}
\* The traders that open positions and place orders; the others only call
\* into what these own.
Openers == {"t1"}
LPs == {"lp1"}
Keepers == {"k1"}
POOL == "pool"
PM == "pm"
NONE == "none"
\* The administrator stored by MarketManager.initialize.
ADMIN == "admin"
Accounts == Traders \cup LPs \cup Keepers \cup {POOL, PM}
Markets == {0}

\* ------------------------------------------------------------------------
\* Bounds of the model
\* ------------------------------------------------------------------------
MaxPositionId == 2
MaxOrderId == 2
MaxTicks == 1
\* Successful contract invocations in one behaviour of Spec / SpecOrders.
MaxCalls == 3
MaxOrderCalls == 4
\* Successful invocations and clock ticks in one behaviour of SpecFunding.
MaxFundingCalls == 3
MaxFundingTicks == 2
\* Successful invocations in one behaviour of SpecPool.
MaxPoolCalls == 4
\* Successful invocations in one behaviour of SpecAccess.
MaxAccessCalls == 4

\* ------------------------------------------------------------------------
\* Inputs the callers choose from
\* ------------------------------------------------------------------------
Prices == {90, 100, 110}
Collaterals == {100}
Leverages == {10}
SizeSteps == {500}
CollateralSteps == {50}
ExecutionFees == {2}
Expirations == {0, 1}
ClosePercentages == {5000, 10000}
StopLossTriggers == {95, 105}
TakeProfitTriggers == {95, 105}
LimitTriggers == {100}
DepositAmounts == {1300}
ShareAmounts == {1300}
TickSeconds == {400000}
\* Anyone may provide liquidity: the depositors of SpecPool and what they
\* deposit and redeem.
PoolUsers == LPs \cup {"t2"}
PoolDepositAmounts == {1, 500}
PoolShareAmounts == {1, 500, 1300}

\* ------------------------------------------------------------------------
\* Parameter store (ConfigManager) and market parameters
\* ------------------------------------------------------------------------
MinLeverage == 5
MaxLeverage == 20
MinPositionSize == 500
LiquidationFeeBps == 1000
FundingInterval == 60
MaxUtilizationRatio == 8000
MinLiquidityReserveRatio == 2000
BorrowRatePerSecond == 1
MinExecutionFee == 1
MaxOpenInterest == 1500
MaxFundingRate == 10000
BaseFundingRate == 100
MAINTENANCE_MARGIN_BPS == 100
BPS_DIVISOR == 10000

VARIABLES positions, next_position_id, user_positions, orders, next_order_id,
          user_orders, position_orders, market_orders, markets, total_shares,
          total_deposits, shares, reserved_liquidity, position_collateral,
          pool_position_manager, market_position_manager, balance, price,
          now, last, calls_left

vars == <<positions, next_position_id, user_positions, orders, next_order_id,
          user_orders, position_orders, market_orders, markets, total_shares,
          total_deposits, shares, reserved_liquidity, position_collateral,
          pool_position_manager, market_position_manager, balance, price,
          now, last, calls_left>>

\* The ledger as one record, the argument and result of every handler.
cur == [positions |-> positions, next_position_id |-> next_position_id,
        user_positions |-> user_positions, orders |-> orders,
        next_order_id |-> next_order_id, user_orders |-> user_orders,
        position_orders |-> position_orders, market_orders |-> market_orders,
        markets |-> markets, total_shares |-> total_shares,
        total_deposits |-> total_deposits, shares |-> shares,
        reserved_liquidity |-> reserved_liquidity,
        position_collateral |-> position_collateral,
        pool_position_manager |-> pool_position_manager,
        market_position_manager |-> market_position_manager,
        balance |-> balance, price |-> price, now |-> now]

Ok(s, v) == [ok |-> TRUE, st |-> s, ret |-> v]
Fail(s) == [ok |-> FALSE, st |-> s, ret |-> 0]

\* Rust integer division truncates toward zero.
TDiv(a, b) == IF (a >= 0) = (b >= 0)
              THEN (IF a >= 0 THEN a ELSE -a) \div (IF b >= 0 THEN b ELSE -b)
              ELSE -((IF a >= 0 THEN a ELSE -a) \div (IF b >= 0 THEN b ELSE -b))

Abs(a) == IF a >= 0 THEN a ELSE -a

\* Vec helpers of the index lists.
RemoveId(seq, id) == SelectSeq(seq, LAMBDA x: x # id)
SeqToSet(seq) == {seq[i] : i \in 1..Len(seq)}
RemoveKey(f, k) == [x \in (DOMAIN f) \ {k} |-> f[x]]
PutKey(f, k, v) == [x \in (DOMAIN f) \cup {k} |-> IF x = k THEN v ELSE f[x]]

\* ------------------------------------------------------------------------
\* Token ledger: atomic balance move
\* ------------------------------------------------------------------------
transfer(s, from, to, amount) ==
  IF amount < 0 \/ s.balance[from] < amount
  THEN Fail(s)
  ELSE Ok([s EXCEPT !.balance =
             [a \in Accounts |->
                s.balance[a] - (IF a = from THEN amount ELSE 0)
                             + (IF a = to THEN amount ELSE 0)]], 0)

\* ------------------------------------------------------------------------
\* LiquidityPool
\* ------------------------------------------------------------------------
\* require_position_manager that accepts any caller once a manager is set.
pool_require_position_manager_any_caller(s, caller) ==
  s.pool_position_manager # NONE

pool_require_position_manager(s, caller) ==
  s.pool_position_manager # NONE /\ caller = s.pool_position_manager

\* LiquidityPool::set_position_manager: the admin of the ConfigManager
\* registers the contract allowed to call the restricted entry points.
pool_set_position_manager(s, admin, position_manager) ==
  IF admin # ADMIN THEN Fail(s)
  ELSE Ok([s EXCEPT !.pool_position_manager = position_manager], 0)

get_balance(s) == s.balance[POOL]

get_available_liquidity(s) == get_balance(s) - s.reserved_liquidity

get_utilization_ratio(s) ==
  IF get_balance(s) = 0 THEN 0
  ELSE TDiv(s.reserved_liquidity * 10000, get_balance(s))

\* deposit that credits the depositor's shares without raising total_shares.
deposit_keeps_total_shares(s, user, amount) ==
  IF amount <= 0 THEN Fail(s)
  ELSE LET r1 == transfer(s, user, POOL, amount)
           s1 == r1.st
           bal == get_balance(s1)
           pool_value_before == bal - amount
           shares_to_mint == IF s.total_shares = 0 THEN amount
                             ELSE TDiv(amount * s.total_shares, pool_value_before)
       IN IF ~r1.ok THEN r1
          ELSE IF s.total_shares # 0 /\ pool_value_before <= 0 THEN Fail(s1)
          ELSE Ok([s1 EXCEPT !.shares[user] = @ + shares_to_mint,
                             !.total_deposits = s.total_deposits + amount],
                  shares_to_mint)

deposit(s, user, amount) ==
  IF amount <= 0 THEN Fail(s)
  ELSE LET r1 == transfer(s, user, POOL, amount)
           s1 == r1.st
           bal == get_balance(s1)
           pool_value_before == bal - amount
           shares_to_mint == IF s.total_shares = 0 THEN amount
                             ELSE TDiv(amount * s.total_shares, pool_value_before)
       IN IF ~r1.ok THEN r1
          ELSE IF s.total_shares # 0 /\ pool_value_before <= 0 THEN Fail(s1)
          ELSE Ok([s1 EXCEPT !.shares[user] = @ + shares_to_mint,
                             !.total_shares = @ + shares_to_mint,
                             !.total_deposits = s.total_deposits + amount],
                  shares_to_mint)

\* withdraw that takes the tokens paid out, not the pro-rata share, off
\* total_deposits.
withdraw_reduces_deposits_by_tokens(s, user, sh) ==
  IF sh <= 0 THEN Fail(s)
  ELSE IF s.total_shares = 0 THEN Fail(s)
  ELSE LET bal == get_balance(s)
           tokens_to_return == TDiv(sh * bal, s.total_shares)
           reserved == s.reserved_liquidity
           available == bal - reserved
           balance_after_withdrawal == bal - tokens_to_return
           min_reserve_required ==
             TDiv(balance_after_withdrawal * MinLiquidityReserveRatio, 10000)
           s1 == [s EXCEPT !.shares[user] = @ - sh, !.total_shares = @ - sh]
           s2 == [s1 EXCEPT !.total_deposits = s.total_deposits - tokens_to_return]
           r3 == transfer(s2, POOL, user, tokens_to_return)
       IN IF tokens_to_return > available THEN Fail(s)
          ELSE IF (balance_after_withdrawal - reserved) < min_reserve_required
               THEN Fail(s)
          ELSE IF s.shares[user] < sh THEN Fail(s)
          ELSE IF ~r3.ok THEN r3
          ELSE Ok(r3.st, tokens_to_return)

\* withdraw without the minimum-reserve-ratio check.
withdraw_ignores_reserve_ratio(s, user, sh) ==
  IF sh <= 0 THEN Fail(s)
  ELSE IF s.total_shares = 0 THEN Fail(s)
  ELSE LET bal == get_balance(s)
           tokens_to_return == TDiv(sh * bal, s.total_shares)
           reserved == s.reserved_liquidity
           available == bal - reserved
           deposits_to_reduce == TDiv(sh * s.total_deposits, s.total_shares)
           s1 == [s EXCEPT !.shares[user] = @ - sh, !.total_shares = @ - sh]
           s2 == [s1 EXCEPT !.total_deposits = s.total_deposits - deposits_to_reduce]
           r3 == transfer(s2, POOL, user, tokens_to_return)
       IN IF tokens_to_return > available THEN Fail(s)
          ELSE IF s.shares[user] < sh THEN Fail(s)
          ELSE IF ~r3.ok THEN r3
          ELSE Ok(r3.st, tokens_to_return)

withdraw(s, user, sh) ==
  IF sh <= 0 THEN Fail(s)
  ELSE IF s.total_shares = 0 THEN Fail(s)
  ELSE LET bal == get_balance(s)
           tokens_to_return == TDiv(sh * bal, s.total_shares)
           reserved == s.reserved_liquidity
           available == bal - reserved
           balance_after_withdrawal == bal - tokens_to_return
           min_reserve_required ==
             TDiv(balance_after_withdrawal * MinLiquidityReserveRatio, 10000)
           deposits_to_reduce == TDiv(sh * s.total_deposits, s.total_shares)
           s1 == [s EXCEPT !.shares[user] = @ - sh, !.total_shares = @ - sh]
           s2 == [s1 EXCEPT !.total_deposits = s.total_deposits - deposits_to_reduce]
           r3 == transfer(s2, POOL, user, tokens_to_return)
       IN IF tokens_to_return > available THEN Fail(s)
          ELSE IF (balance_after_withdrawal - reserved) < min_reserve_required
               THEN Fail(s)
          ELSE IF s.shares[user] < sh THEN Fail(s)
          ELSE IF ~r3.ok THEN r3
          ELSE Ok(r3.st, tokens_to_return)

get_position_collateral(s, position_id) ==
  IF position_id \in DOMAIN s.position_collateral
  THEN s.position_collateral[position_id] ELSE 0

put_position_collateral(s, position_id, amount) ==
  [s EXCEPT !.position_collateral = PutKey(@, position_id, amount)]

delete_position_collateral(s, position_id) ==
  [s EXCEPT !.position_collateral = RemoveKey(@, position_id)]

reserve_liquidity(s, caller, position_id, size, collateral) ==
  IF ~pool_require_position_manager(s, caller) THEN Fail(s)
  ELSE Ok(put_position_collateral(
            [s EXCEPT !.reserved_liquidity = @ + size], position_id, collateral), 0)

\* release_liquidity that checks the amount but leaves the counter as it is.
release_liquidity_keeps_counter(s, caller, position_id, size) ==
  IF ~pool_require_position_manager(s, caller) THEN Fail(s)
  ELSE IF size > s.reserved_liquidity THEN Fail(s)
  ELSE Ok(s, 0)

release_liquidity(s, caller, position_id, size) ==
  IF ~pool_require_position_manager(s, caller) THEN Fail(s)
  ELSE IF size > s.reserved_liquidity THEN Fail(s)
  ELSE Ok([s EXCEPT !.reserved_liquidity = @ - size], 0)

deposit_position_collateral(s, caller, position_id, trader, amount) ==
  IF ~pool_require_position_manager(s, caller) THEN Fail(s)
  ELSE LET r1 == transfer(s, trader, POOL, amount)
       IN IF ~r1.ok THEN r1
          ELSE Ok(put_position_collateral(r1.st, position_id,
                    get_position_collateral(r1.st, position_id) + amount), 0)

record_position_collateral(s, caller, position_id, amount) ==
  IF ~pool_require_position_manager(s, caller) THEN Fail(s)
  ELSE Ok(put_position_collateral(s, position_id,
            get_position_collateral(s, position_id) + amount), 0)

withdraw_position_collateral(s, caller, position_id, trader, amount) ==
  IF ~pool_require_position_manager(s, caller) THEN Fail(s)
  ELSE LET current == get_position_collateral(s, position_id)
           remaining == current - amount
       IN IF amount > current THEN Fail(s)
          ELSE transfer(IF remaining = 0
                        THEN delete_position_collateral(s, position_id)
                        ELSE put_position_collateral(s, position_id, remaining),
                        POOL, trader, amount)

settle_trader_pnl(s, caller, trader, pnl) ==
  IF ~pool_require_position_manager(s, caller) THEN Fail(s)
  ELSE IF pnl <= 0 THEN Ok(s, 0)
  ELSE transfer(s, POOL, trader, pnl)

\* ------------------------------------------------------------------------
\* MarketManager
\* ------------------------------------------------------------------------
market_require_position_manager(s, caller) ==
  s.market_position_manager # NONE /\ caller = s.market_position_manager

get_cumulative_funding(s, market_id, is_long) ==
  IF is_long THEN s.markets[market_id].cumulative_funding_long
  ELSE s.markets[market_id].cumulative_funding_short

is_market_paused(s, market_id) == s.markets[market_id].is_paused

\* can_open_position that looks at the open-interest headroom only.
can_open_position_ignores_pause(s, market_id, is_long, size) ==
  IF market_id \notin DOMAIN s.markets THEN FALSE
  ELSE LET market == s.markets[market_id]
           current_oi == IF is_long THEN market.long_open_interest
                         ELSE market.short_open_interest
       IN current_oi + size <= market.max_open_interest

can_open_position(s, market_id, is_long, size) ==
  IF market_id \notin DOMAIN s.markets THEN FALSE
  ELSE LET market == s.markets[market_id]
           current_oi == IF is_long THEN market.long_open_interest
                         ELSE market.short_open_interest
       IN IF market.is_paused THEN FALSE
          ELSE current_oi + size <= market.max_open_interest

\* update_open_interest with the short branch writing the long counter.
update_open_interest_short_writes_long(s, caller, market_id, is_long, size_delta) ==
  IF ~market_require_position_manager(s, caller) THEN Fail(s)
  ELSE IF market_id \notin DOMAIN s.markets THEN Fail(s)
  ELSE LET market == s.markets[market_id]
       IN IF size_delta > 0
          THEN IF (IF is_long THEN market.long_open_interest
                   ELSE market.short_open_interest) + size_delta
                  > market.max_open_interest
               THEN Fail(s)
               ELSE Ok([s EXCEPT !.markets[market_id].long_open_interest =
                                   @ + size_delta], 0)
          ELSE IF -size_delta > market.long_open_interest
               THEN Fail(s)
               ELSE Ok([s EXCEPT !.markets[market_id].long_open_interest =
                                   @ - (-size_delta)], 0)

update_open_interest(s, caller, market_id, is_long, size_delta) ==
  IF ~market_require_position_manager(s, caller) THEN Fail(s)
  ELSE IF market_id \notin DOMAIN s.markets THEN Fail(s)
  ELSE LET market == s.markets[market_id]
       IN IF is_long
          THEN IF size_delta > 0
               THEN IF market.long_open_interest + size_delta > market.max_open_interest
                    THEN Fail(s)
                    ELSE Ok([s EXCEPT !.markets[market_id].long_open_interest =
                                        @ + size_delta], 0)
               ELSE IF -size_delta > market.long_open_interest
                    THEN Fail(s)
                    ELSE Ok([s EXCEPT !.markets[market_id].long_open_interest =
                                        @ - (-size_delta)], 0)
          ELSE IF size_delta > 0
               THEN IF market.short_open_interest + size_delta > market.max_open_interest
                    THEN Fail(s)
                    ELSE Ok([s EXCEPT !.markets[market_id].short_open_interest =
                                        @ + size_delta], 0)
               ELSE IF -size_delta > market.short_open_interest
                    THEN Fail(s)
                    ELSE Ok([s EXCEPT !.markets[market_id].short_open_interest =
                                        @ - (-size_delta)], 0)

require_admin(s, admin) == admin = ADMIN

\* The funding rate of update_funding_rate for a market with open interest:
\* base rate times the squared imbalance, clamped to the market's maximum.
calculate_funding_rate(market) ==
  LET total_oi == market.long_open_interest + market.short_open_interest
      oi_diff == market.long_open_interest - market.short_open_interest
      imbalance_ratio_bps == TDiv(oi_diff * 10000, total_oi)
      imbalance_squared == TDiv(imbalance_ratio_bps * imbalance_ratio_bps, 10000)
      funding_rate == TDiv(market.base_funding_rate * imbalance_squared, 10000)
  IN IF funding_rate > market.max_funding_rate THEN market.max_funding_rate
     ELSE IF funding_rate < -market.max_funding_rate THEN -market.max_funding_rate
     ELSE funding_rate

\* The accumulator step of update_funding_rate.
accrue_funding(market, funding_rate, time_elapsed) ==
  LET total_funding == funding_rate * time_elapsed
  IN IF funding_rate > 0
     THEN [market EXCEPT !.cumulative_funding_long = @ + total_funding]
     ELSE IF funding_rate < 0
     THEN [market EXCEPT !.cumulative_funding_short = @ + Abs(total_funding)]
     ELSE market

update_funding_rate(s, caller, market_id) ==
  IF market_id \notin DOMAIN s.markets THEN Fail(s)
  ELSE LET market == s.markets[market_id]
           time_elapsed == s.now - market.last_funding_update
           total_oi == market.long_open_interest + market.short_open_interest
           funding_rate == calculate_funding_rate(market)
           accrued == accrue_funding(market, funding_rate, time_elapsed)
       IN IF time_elapsed < FundingInterval THEN Fail(s)
          ELSE IF total_oi = 0
          THEN Ok([s EXCEPT !.markets[market_id].last_funding_update = s.now], 0)
          ELSE Ok([s EXCEPT !.markets[market_id] =
                      [accrued EXCEPT !.funding_rate = funding_rate,
                                      !.last_funding_update = s.now]], 0)

\* MarketManager::set_position_manager.
market_set_position_manager(s, admin, position_manager) ==
  IF ~require_admin(s, admin) THEN Fail(s)
  ELSE Ok([s EXCEPT !.market_position_manager = position_manager], 0)

pause_market(s, admin, market_id) ==
  IF ~require_admin(s, admin) THEN Fail(s)
  ELSE IF market_id \notin DOMAIN s.markets THEN Fail(s)
  ELSE Ok([s EXCEPT !.markets[market_id].is_paused = TRUE], 0)

unpause_market(s, admin, market_id) ==
  IF ~require_admin(s, admin) THEN Fail(s)
  ELSE IF market_id \notin DOMAIN s.markets THEN Fail(s)
  ELSE Ok([s EXCEPT !.markets[market_id].is_paused = FALSE], 0)

\* ------------------------------------------------------------------------
\* PositionManager: storage helpers
\* ------------------------------------------------------------------------
set_position(s, position_id, position) ==
  [s EXCEPT !.positions = PutKey(@, position_id, position)]

remove_position(s, position_id) ==
  [s EXCEPT !.positions = RemoveKey(@, position_id)]

add_user_position(s, trader, position_id) ==
  [s EXCEPT !.user_positions[trader] = Append(@, position_id)]

remove_user_position(s, trader, position_id) ==
  [s EXCEPT !.user_positions[trader] = RemoveId(@, position_id)]

order_exists(s, order_id) == order_id \in DOMAIN s.orders

set_order(s, order_id, order) ==
  [s EXCEPT !.orders = PutKey(@, order_id, order)]

remove_order(s, order_id) ==
  [s EXCEPT !.orders = RemoveKey(@, order_id)]

add_user_order(s, trader, order_id) ==
  [s EXCEPT !.user_orders[trader] = Append(@, order_id)]

remove_user_order(s, trader, order_id) ==
  [s EXCEPT !.user_orders[trader] = RemoveId(@, order_id)]

get_position_orders_list(s, position_id) ==
  IF position_id \in DOMAIN s.position_orders
  THEN s.position_orders[position_id] ELSE <<>>

add_position_order(s, position_id, order_id) ==
  [s EXCEPT !.position_orders =
     PutKey(@, position_id, Append(get_position_orders_list(s, position_id), order_id))]

remove_position_order(s, position_id, order_id) ==
  [s EXCEPT !.position_orders =
     PutKey(@, position_id, RemoveId(get_position_orders_list(s, position_id), order_id))]

clear_position_orders(s, position_id) ==
  [s EXCEPT !.position_orders = RemoveKey(@, position_id)]

add_market_order(s, market_id, order_id) ==
  [s EXCEPT !.market_orders[market_id] = Append(@, order_id)]

remove_market_order(s, market_id, order_id) ==
  [s EXCEPT !.market_orders[market_id] = RemoveId(@, order_id)]

validate_execution_fee(fee) == fee >= MinExecutionFee

validate_leverage(leverage) == leverage >= MinLeverage /\ leverage <= MaxLeverage

validate_position_size(size) == size >= MinPositionSize

\* check_order_trigger with a take-profit tested like a stop-loss.
check_order_trigger_take_profit_as_stop(order, current_price) ==
  IF order.is_long THEN current_price <= order.trigger_price
  ELSE current_price >= order.trigger_price

check_order_trigger(order, current_price) ==
  IF order.order_type = "Limit"
  THEN IF order.is_long THEN current_price <= order.trigger_price
       ELSE current_price >= order.trigger_price
  ELSE IF order.order_type = "StopLoss"
  THEN IF order.is_long THEN current_price <= order.trigger_price
       ELSE current_price >= order.trigger_price
  ELSE IF order.is_long THEN current_price >= order.trigger_price
       ELSE current_price <= order.trigger_price

check_acceptable_price(order, current_price) ==
  IF order.acceptable_price = 0 THEN TRUE
  ELSE IF order.order_type = "Limit"
  THEN IF order.is_long THEN current_price <= order.acceptable_price
       ELSE current_price >= order.acceptable_price
  ELSE IF order.is_long THEN current_price >= order.acceptable_price
       ELSE current_price <= order.acceptable_price

\* cleanup_order that leaves the order id in the market's order list.
cleanup_order_keeps_market_index(s, order) ==
  LET s1 == remove_order(s, order.order_id)
      s2 == remove_user_order(s1, order.trader, order.order_id)
  IN IF order.position_id > 0
     THEN remove_position_order(s2, order.position_id, order.order_id)
     ELSE s2

cleanup_order(s, order) ==
  LET s1 == remove_order(s, order.order_id)
      s2 == remove_user_order(s1, order.trader, order.order_id)
      s3 == remove_market_order(s2, order.market_id, order.order_id)
  IN IF order.position_id > 0
     THEN remove_position_order(s3, order.position_id, order.order_id)
     ELSE s3

\* The loop of cancel_position_attached_orders over the attached order ids.
RECURSIVE cancel_attached_from(_, _, _)
cancel_attached_from(s, order_ids, i) ==
  IF i > Len(order_ids) THEN Ok(s, 0)
  ELSE IF ~order_exists(s, order_ids[i])
  THEN cancel_attached_from(s, order_ids, i + 1)
  ELSE LET order == s.orders[order_ids[i]]
           r1 == transfer(s, PM, order.trader, order.execution_fee)
           s2 == remove_order(r1.st, order.order_id)
           s3 == remove_user_order(s2, order.trader, order.order_id)
           s4 == remove_market_order(s3, order.market_id, order.order_id)
       IN IF ~r1.ok THEN r1
          ELSE cancel_attached_from(s4, order_ids, i + 1)

\* cancel_position_attached_orders that leaves the position's order list.
cancel_position_attached_orders_keeps_list(s, position_id) ==
  cancel_attached_from(s, get_position_orders_list(s, position_id), 1)

cancel_position_attached_orders(s, position_id) ==
  LET r == cancel_attached_from(s, get_position_orders_list(s, position_id), 1)
  IN IF ~r.ok THEN r
     ELSE Ok(clear_position_orders(r.st, position_id), 0)

\* calculate_liquidation_price that leaves the maintenance margin out.
calculate_liquidation_price_without_margin(entry_price, collateral, size, is_long) ==
  LET collateral_ratio_bps == TDiv(collateral * BPS_DIVISOR, size)
  IN IF is_long
     THEN TDiv(entry_price * (BPS_DIVISOR - collateral_ratio_bps), BPS_DIVISOR)
     ELSE TDiv(entry_price * (BPS_DIVISOR + collateral_ratio_bps), BPS_DIVISOR)

calculate_liquidation_price(entry_price, collateral, size, is_long) ==
  LET collateral_ratio_bps == TDiv(collateral * BPS_DIVISOR, size)
  IN IF is_long
     THEN TDiv(entry_price * (BPS_DIVISOR - collateral_ratio_bps + MAINTENANCE_MARGIN_BPS),
               BPS_DIVISOR)
     ELSE TDiv(entry_price * (BPS_DIVISOR + collateral_ratio_bps - MAINTENANCE_MARGIN_BPS),
               BPS_DIVISOR)

\* calculate_pnl that charges the whole cumulative funding of the market,
\* not the funding accrued since the position's snapshot.
calculate_pnl_ignores_entry_funding(s, position, current_price) ==
  LET size_i128 == position.size
      price_diff == IF position.is_long
                    THEN current_price - position.entry_price
                    ELSE position.entry_price - current_price
      price_pnl == TDiv(price_diff * size_i128, position.entry_price)
      cumulative_funding_long == get_cumulative_funding(s, position.market_id, TRUE)
      cumulative_funding_short == get_cumulative_funding(s, position.market_id, FALSE)
      funding_payment ==
        IF position.is_long
        THEN LET funding_per_second == TDiv(cumulative_funding_long, 3600)
             IN TDiv(funding_per_second * size_i128, 10000000)
        ELSE LET net_funding == cumulative_funding_short - cumulative_funding_long
                 funding_per_second == TDiv(net_funding, 3600)
             IN TDiv(funding_per_second * size_i128, 10000000)
      time_elapsed == s.now - position.last_interaction
      borrowing_fee == TDiv(BorrowRatePerSecond * time_elapsed * size_i128, 10000000)
  IN price_pnl - funding_payment - borrowing_fee

calculate_pnl(s, position, current_price) ==
  LET size_i128 == position.size
      price_diff == IF position.is_long
                    THEN current_price - position.entry_price
                    ELSE position.entry_price - current_price
      price_pnl == TDiv(price_diff * size_i128, position.entry_price)
      cumulative_funding_long == get_cumulative_funding(s, position.market_id, TRUE)
      cumulative_funding_short == get_cumulative_funding(s, position.market_id, FALSE)
      funding_payment ==
        IF position.is_long
        THEN LET funding_accrued == cumulative_funding_long - position.entry_funding_long
                 funding_per_second == TDiv(funding_accrued, 3600)
             IN TDiv(funding_per_second * size_i128, 10000000)
        ELSE LET funding_received == cumulative_funding_long - position.entry_funding_long
                 funding_paid == cumulative_funding_short - position.entry_funding_short
                 net_funding == funding_paid - funding_received
                 funding_per_second == TDiv(net_funding, 3600)
             IN TDiv(funding_per_second * size_i128, 10000000)
      time_elapsed == s.now - position.last_interaction
      borrowing_fee == TDiv(BorrowRatePerSecond * time_elapsed * size_i128, 10000000)
  IN price_pnl - funding_payment - borrowing_fee

\* The utilization check shared in shape by open_position and
\* execute_limit_order: TRUE when the new size would exceed the ceiling.
utilization_exceeded(s, size) ==
  LET reserved_current == s.reserved_liquidity
      available == get_available_liquidity(s)
      total_balance == available + reserved_current
      reserved_after == reserved_current + size
  IN total_balance > 0 /\
     TDiv(reserved_after * 10000, total_balance) > MaxUtilizationRatio

\* ------------------------------------------------------------------------
\* PositionManager: positions
\* ------------------------------------------------------------------------
open_position(s, trader, market_id, collateral, leverage, is_long) ==
  IF collateral = 0 \/ leverage = 0 THEN Fail(s)
  ELSE IF ~validate_leverage(leverage) THEN Fail(s)
  ELSE IF ~validate_position_size(collateral * leverage) THEN Fail(s)
  ELSE IF ~can_open_position(s, market_id, is_long, collateral * leverage) THEN Fail(s)
  ELSE
    LET size == collateral * leverage
        entry_price == s.price[market_id]
        entry_funding_long == get_cumulative_funding(s, market_id, TRUE)
        entry_funding_short == get_cumulative_funding(s, market_id, FALSE)
        position_id == s.next_position_id
        s1 == [s EXCEPT !.next_position_id = @ + 1]
        r2 == deposit_position_collateral(s1, PM, position_id, trader, collateral)
        r3 == reserve_liquidity(r2.st, PM, position_id, size, collateral)
        position == [trader |-> trader, market_id |-> market_id,
                     collateral |-> collateral, size |-> size, is_long |-> is_long,
                     entry_price |-> entry_price,
                     entry_funding_long |-> entry_funding_long,
                     entry_funding_short |-> entry_funding_short,
                     last_interaction |-> s.now,
                     liquidation_price |->
                       calculate_liquidation_price(entry_price, collateral, size, is_long)]
        s4 == add_user_position(set_position(r3.st, position_id, position),
                                trader, position_id)
        r5 == update_open_interest(s4, PM, market_id, is_long, size)
    IN IF get_available_liquidity(s1) <= 0 THEN Fail(s1)
       ELSE IF utilization_exceeded(s1, size) THEN Fail(s1)
       ELSE IF ~r2.ok THEN r2
       ELSE IF ~r3.ok THEN r3
       ELSE IF ~r5.ok THEN r5
       ELSE Ok(r5.st, position_id)

\* settle_close that returns the whole collateral whatever the PnL.
settle_close_ignores_loss(s, position_id, position, pnl) ==
  LET r1 == withdraw_position_collateral(s, PM, position_id, position.trader,
                                         position.collateral)
  IN IF ~r1.ok THEN r1
     ELSE IF pnl > 0
          THEN settle_trader_pnl(r1.st, PM, position.trader, pnl)
          ELSE r1

\* Collateral and PnL settlement of a full close (close_position and
\* execute_full_close run the same sequence).
settle_close(s, position_id, position, pnl) ==
  LET final_amount == position.collateral + pnl
      withdrawal_amount == IF final_amount > 0 THEN final_amount ELSE 0
      r1 == withdraw_position_collateral(s, PM, position_id, position.trader,
                                         position.collateral)
  IN IF pnl >= 0
     THEN IF ~r1.ok THEN r1
          ELSE IF pnl > 0
               THEN settle_trader_pnl(r1.st, PM, position.trader, pnl)
               ELSE r1
     ELSE withdraw_position_collateral(s, PM, position_id, position.trader,
                                       withdrawal_amount)

close_position(s, trader, position_id) ==
  IF position_id \notin DOMAIN s.positions THEN Fail(s)
  ELSE IF s.positions[position_id].trader # trader THEN Fail(s)
  ELSE
    LET position == s.positions[position_id]
        r1 == cancel_position_attached_orders(s, position_id)
        current_price == r1.st.price[position.market_id]
        pnl == calculate_pnl(r1.st, position, current_price)
        r2 == release_liquidity(r1.st, PM, position_id, position.size)
        r3 == settle_close(r2.st, position_id, position, pnl)
        r4 == update_open_interest(r3.st, PM, position.market_id,
                                   position.is_long, -position.size)
        s5 == remove_user_position(remove_position(r4.st, position_id),
                                   trader, position_id)
    IN IF ~r1.ok THEN r1
       ELSE IF ~r2.ok THEN r2
       ELSE IF ~r3.ok THEN Fail(r3.st)
       ELSE IF ~r4.ok THEN r4
       ELSE Ok(s5, pnl)

increase_position(s, trader, position_id, additional_collateral, additional_size) ==
  IF additional_collateral = 0 /\ additional_size = 0 THEN Fail(s)
  ELSE IF position_id \notin DOMAIN s.positions THEN Fail(s)
  ELSE IF s.positions[position_id].trader # trader THEN Fail(s)
  ELSE
    LET p0 == s.positions[position_id]
        current_price == IF additional_size > 0 THEN s.price[p0.market_id]
                         ELSE p0.entry_price
        r1 == IF additional_collateral > 0
              THEN deposit_position_collateral(s, PM, position_id, trader,
                                               additional_collateral)
              ELSE Ok(s, 0)
        p1 == IF additional_collateral > 0
              THEN [p0 EXCEPT !.collateral = @ + additional_collateral]
              ELSE p0
        total_size == p1.size + additional_size
        avg_entry_price == TDiv(p1.size * p1.entry_price + additional_size * current_price,
                                total_size)
        r2 == IF additional_size > 0
              THEN reserve_liquidity(r1.st, PM, position_id, additional_size, 0)
              ELSE r1
        r3 == IF additional_size > 0
              THEN update_open_interest(r2.st, PM, p1.market_id, p1.is_long,
                                        additional_size)
              ELSE r2
        p2 == IF additional_size > 0
              THEN [p1 EXCEPT !.size = total_size,
                              !.entry_price = avg_entry_price,
                              !.entry_funding_long =
                                 get_cumulative_funding(r3.st, p1.market_id, TRUE),
                              !.entry_funding_short =
                                 get_cumulative_funding(r3.st, p1.market_id, FALSE)]
              ELSE p1
        effective_leverage == TDiv(p2.size, p2.collateral)
        p3 == [p2 EXCEPT !.liquidation_price =
                           calculate_liquidation_price(p2.entry_price, p2.collateral,
                                                       p2.size, p2.is_long),
                         !.last_interaction = s.now]
    IN IF ~r1.ok THEN r1
       ELSE IF additional_size > 0 /\
               ~can_open_position(r1.st, p1.market_id, p1.is_long, additional_size)
            THEN Fail(r1.st)
       ELSE IF ~r2.ok THEN r2
       ELSE IF ~r3.ok THEN r3
       ELSE IF ~validate_leverage(effective_leverage) THEN Fail(r3.st)
       ELSE Ok(set_position(r3.st, position_id, p3), 0)

\* Realization of the proportional PnL of a size reduction (decrease_position
\* and execute_partial_close run the same sequence): the PnL settlement, the
\* release of reserved liquidity and the open-interest decrease.
realize_reduction(s, position_id, position, size_to_reduce, realized_pnl) ==
  LET r1 == IF realized_pnl > 0
            THEN settle_trader_pnl(s, PM, position.trader, realized_pnl)
            ELSE IF realized_pnl < 0
            THEN withdraw_position_collateral(s, PM, position_id, POOL, -realized_pnl)
            ELSE Ok(s, 0)
      r2 == release_liquidity(r1.st, PM, position_id, size_to_reduce)
      r3 == update_open_interest(r2.st, PM, position.market_id, position.is_long,
                                 -size_to_reduce)
  IN IF ~r1.ok THEN r1
     ELSE IF ~r2.ok THEN r2
     ELSE r3

decrease_position(s, trader, position_id, collateral_to_remove, size_to_reduce) ==
  IF collateral_to_remove = 0 /\ size_to_reduce = 0 THEN Fail(s)
  ELSE IF position_id \notin DOMAIN s.positions THEN Fail(s)
  ELSE IF s.positions[position_id].trader # trader THEN Fail(s)
  ELSE IF collateral_to_remove > s.positions[position_id].collateral THEN Fail(s)
  ELSE IF size_to_reduce > s.positions[position_id].size THEN Fail(s)
  ELSE
    LET p0 == s.positions[position_id]
        current_price == s.price[p0.market_id]
        total_pnl == calculate_pnl(s, p0, current_price)
        proportion == TDiv(size_to_reduce * 10000, p0.size)
        realized_pnl == TDiv(total_pnl * proportion, 10000)
        new_collateral_i128 == p0.collateral + realized_pnl
        r1 == IF size_to_reduce > 0
              THEN realize_reduction(s, position_id, p0, size_to_reduce, realized_pnl)
              ELSE Ok(s, 0)
        p1 == IF size_to_reduce > 0
              THEN [p0 EXCEPT !.collateral = new_collateral_i128,
                              !.size = @ - size_to_reduce,
                              !.entry_funding_long =
                                 get_cumulative_funding(r1.st, p0.market_id, TRUE),
                              !.entry_funding_short =
                                 get_cumulative_funding(r1.st, p0.market_id, FALSE)]
              ELSE p0
        remaining_collateral == p1.collateral - collateral_to_remove
        effective_leverage == TDiv(p1.size, remaining_collateral)
        margin_ratio == TDiv(remaining_collateral * 10000, p1.size)
        r2 == IF collateral_to_remove > 0
              THEN withdraw_position_collateral(r1.st, PM, position_id, trader,
                                                collateral_to_remove)
              ELSE r1
        p2 == IF collateral_to_remove > 0
              THEN [p1 EXCEPT !.collateral = remaining_collateral]
              ELSE p1
        p3 == [p2 EXCEPT !.liquidation_price =
                           calculate_liquidation_price(p2.entry_price, p2.collateral,
                                                       p2.size, p2.is_long),
                         !.last_interaction = s.now]
    IN IF size_to_reduce > 0 /\ new_collateral_i128 <= 0 THEN Fail(s)
       ELSE IF ~r1.ok THEN r1
       ELSE IF size_to_reduce > 0 /\ ~validate_position_size(p1.size) THEN Fail(r1.st)
       ELSE IF collateral_to_remove > 0 /\ remaining_collateral = 0 THEN Fail(r1.st)
       ELSE IF collateral_to_remove > 0 /\ ~validate_leverage(effective_leverage)
            THEN Fail(r1.st)
       ELSE IF collateral_to_remove > 0 /\ p1.size = 0 THEN Fail(r1.st)
       ELSE IF collateral_to_remove > 0 /\ margin_ratio < 100 THEN Fail(r1.st)
       ELSE IF ~r2.ok THEN r2
       ELSE IF p2.size = 0 THEN Fail(r2.st)
       ELSE Ok(set_position(r2.st, position_id, p3), 0)

\* The keeper's share paid with the 40% pool share of the fee.
liquidation_keeper_payment_pool_share(position) ==
  LET total_liquidation_fee == TDiv(position.size * LiquidationFeeBps, 10000)
      pool_fee == TDiv(total_liquidation_fee * 40, 100)
  IN IF pool_fee > 0 /\ position.collateral > 0
     THEN IF pool_fee > position.collateral THEN position.collateral ELSE pool_fee
     ELSE 0

\* What liquidate_position pays the keeper: 60% of the liquidation fee,
\* capped at the position's collateral.
liquidation_keeper_payment(position) ==
  LET total_liquidation_fee == TDiv(position.size * LiquidationFeeBps, 10000)
      keeper_reward == TDiv(total_liquidation_fee * 60, 100)
  IN IF keeper_reward > 0 /\ position.collateral > 0
     THEN IF keeper_reward > position.collateral
          THEN position.collateral ELSE keeper_reward
     ELSE 0

liquidate_position(s, keeper, position_id) ==
  IF position_id \notin DOMAIN s.positions THEN Fail(s)
  ELSE
    LET position == s.positions[position_id]
        r1 == cancel_position_attached_orders(s, position_id)
        current_price == r1.st.price[position.market_id]
        pnl == calculate_pnl(r1.st, position, current_price)
        remaining_value == position.collateral + pnl
        maintenance_margin == TDiv(position.size * 100, 10000)
        r2 == release_liquidity(r1.st, PM, position_id, position.size)
        keeper_payment == liquidation_keeper_payment(position)
        r3 == IF keeper_payment > 0
              THEN withdraw_position_collateral(r2.st, PM, position_id, keeper,
                                                keeper_payment)
              ELSE r2
        remaining_collateral == position.collateral - keeper_payment
        r4 == IF remaining_collateral > 0
              THEN withdraw_position_collateral(r3.st, PM, position_id, POOL,
                                                remaining_collateral)
              ELSE r3
        r5 == update_open_interest(r4.st, PM, position.market_id, position.is_long,
                                   -position.size)
        s6 == remove_user_position(remove_position(r5.st, position_id),
                                   position.trader, position_id)
    IN IF ~r1.ok THEN r1
       ELSE IF remaining_value > maintenance_margin THEN Fail(r1.st)
       ELSE IF ~r2.ok THEN r2
       ELSE IF ~r3.ok THEN Fail(r3.st)
       ELSE IF ~r4.ok THEN Fail(r4.st)
       ELSE IF ~r5.ok THEN r5
       ELSE Ok(s6, keeper_payment)

\* ------------------------------------------------------------------------
\* PositionManager: order execution helpers
\* ------------------------------------------------------------------------
\* execute_limit_order that takes the collateral from the trader's account
\* and leaves the escrowed collateral with the position manager.
execute_limit_order_charges_trader(s, order) ==
  LET r1 == transfer(s, order.trader, POOL, order.collateral)
      entry_price == r1.st.price[order.market_id]
      entry_funding_long == get_cumulative_funding(r1.st, order.market_id, TRUE)
      entry_funding_short == get_cumulative_funding(r1.st, order.market_id, FALSE)
      position_id == r1.st.next_position_id
      s2 == [r1.st EXCEPT !.next_position_id = @ + 1]
      r3 == record_position_collateral(s2, PM, position_id, order.collateral)
      r4 == reserve_liquidity(r3.st, PM, position_id, order.size, order.collateral)
      position == [trader |-> order.trader, market_id |-> order.market_id,
                   collateral |-> order.collateral, size |-> order.size,
                   is_long |-> order.is_long, entry_price |-> entry_price,
                   entry_funding_long |-> entry_funding_long,
                   entry_funding_short |-> entry_funding_short,
                   last_interaction |-> s.now,
                   liquidation_price |->
                     calculate_liquidation_price(entry_price, order.collateral,
                                                 order.size, order.is_long)]
      s5 == add_user_position(set_position(r4.st, position_id, position),
                              order.trader, position_id)
      r6 == update_open_interest(s5, PM, order.market_id, order.is_long, order.size)
  IN IF ~r1.ok THEN r1
     ELSE IF ~can_open_position(r1.st, order.market_id, order.is_long, order.size)
          THEN Fail(r1.st)
     ELSE IF get_available_liquidity(s2) <= 0 THEN Fail(s2)
     ELSE IF utilization_exceeded(s2, order.size) THEN Fail(s2)
     ELSE IF ~r3.ok THEN r3
     ELSE IF ~r4.ok THEN r4
     ELSE IF ~r6.ok THEN r6
     ELSE Ok(r6.st, position_id)

execute_limit_order(s, order) ==
  LET r1 == transfer(s, PM, POOL, order.collateral)
      entry_price == r1.st.price[order.market_id]
      entry_funding_long == get_cumulative_funding(r1.st, order.market_id, TRUE)
      entry_funding_short == get_cumulative_funding(r1.st, order.market_id, FALSE)
      position_id == r1.st.next_position_id
      s2 == [r1.st EXCEPT !.next_position_id = @ + 1]
      r3 == record_position_collateral(s2, PM, position_id, order.collateral)
      r4 == reserve_liquidity(r3.st, PM, position_id, order.size, order.collateral)
      position == [trader |-> order.trader, market_id |-> order.market_id,
                   collateral |-> order.collateral, size |-> order.size,
                   is_long |-> order.is_long, entry_price |-> entry_price,
                   entry_funding_long |-> entry_funding_long,
                   entry_funding_short |-> entry_funding_short,
                   last_interaction |-> s.now,
                   liquidation_price |->
                     calculate_liquidation_price(entry_price, order.collateral,
                                                 order.size, order.is_long)]
      s5 == add_user_position(set_position(r4.st, position_id, position),
                              order.trader, position_id)
      r6 == update_open_interest(s5, PM, order.market_id, order.is_long, order.size)
  IN IF ~r1.ok THEN r1
     ELSE IF ~can_open_position(r1.st, order.market_id, order.is_long, order.size)
          THEN Fail(r1.st)
     ELSE IF get_available_liquidity(s2) <= 0 THEN Fail(s2)
     ELSE IF utilization_exceeded(s2, order.size) THEN Fail(s2)
     ELSE IF ~r3.ok THEN r3
     ELSE IF ~r4.ok THEN r4
     ELSE IF ~r6.ok THEN r6
     ELSE Ok(r6.st, position_id)

\* The loop of execute_full_close over the attached order ids; the executing
\* order is skipped.
RECURSIVE cancel_other_orders_from(_, _, _, _)
cancel_other_orders_from(s, order_ids, i, executing_order_id) ==
  IF i > Len(order_ids) THEN Ok(s, 0)
  ELSE IF order_ids[i] = executing_order_id \/ ~order_exists(s, order_ids[i])
  THEN cancel_other_orders_from(s, order_ids, i + 1, executing_order_id)
  ELSE LET other_order == s.orders[order_ids[i]]
           r1 == transfer(s, PM, other_order.trader, other_order.execution_fee)
           s2 == remove_order(r1.st, other_order.order_id)
           s3 == remove_user_order(s2, other_order.trader, other_order.order_id)
           s4 == remove_market_order(s3, other_order.market_id, other_order.order_id)
       IN IF ~r1.ok THEN r1
          ELSE cancel_other_orders_from(s4, order_ids, i + 1, executing_order_id)

\* execute_full_close that leaves the other attached orders stored.
execute_full_close_keeps_other_orders(s, position_id, position, current_price, executing_order_id) ==
  LET pnl == calculate_pnl(s, position, current_price)
      r1 == release_liquidity(s, PM, position_id, position.size)
      r2 == settle_close(r1.st, position_id, position, pnl)
      r3 == update_open_interest(r2.st, PM, position.market_id, position.is_long,
                                 -position.size)
      s6 == remove_user_position(remove_position(r3.st, position_id),
                                 position.trader, position_id)
  IN IF ~r1.ok THEN r1
     ELSE IF ~r2.ok THEN Fail(r2.st)
     ELSE IF ~r3.ok THEN r3
     ELSE Ok(s6, pnl)

execute_full_close(s, position_id, position, current_price, executing_order_id) ==
  LET pnl == calculate_pnl(s, position, current_price)
      r1 == release_liquidity(s, PM, position_id, position.size)
      r2 == settle_close(r1.st, position_id, position, pnl)
      r3 == update_open_interest(r2.st, PM, position.market_id, position.is_long,
                                 -position.size)
      r4 == cancel_other_orders_from(r3.st, get_position_orders_list(r3.st, position_id),
                                     1, executing_order_id)
      s5 == clear_position_orders(r4.st, position_id)
      s6 == remove_user_position(remove_position(s5, position_id),
                                 position.trader, position_id)
  IN IF ~r1.ok THEN r1
     ELSE IF ~r2.ok THEN Fail(r2.st)
     ELSE IF ~r3.ok THEN r3
     ELSE IF ~r4.ok THEN r4
     ELSE Ok(s6, pnl)

\* The loop of execute_partial_close that rescales the attached orders.
RECURSIVE rescale_orders_from(_, _, _, _)
rescale_orders_from(s, order_ids, i, new_size) ==
  IF i > Len(order_ids) THEN s
  ELSE IF ~order_exists(s, order_ids[i])
  THEN rescale_orders_from(s, order_ids, i + 1, new_size)
  ELSE LET order == s.orders[order_ids[i]]
       IN rescale_orders_from(
            set_order(s, order.order_id,
                      [order EXCEPT !.size = TDiv(new_size * order.close_percentage, 10000)]),
            order_ids, i + 1, new_size)

\* execute_partial_close that leaves the sizes of the attached orders.
execute_partial_close_keeps_order_sizes(s, position_id, position, size_to_reduce, current_price) ==
  LET total_pnl == calculate_pnl(s, position, current_price)
      proportion == TDiv(size_to_reduce * 10000, position.size)
      realized_pnl == TDiv(total_pnl * proportion, 10000)
      new_collateral_i128 == position.collateral + realized_pnl
      r1 == realize_reduction(s, position_id, position, size_to_reduce, realized_pnl)
      new_size == position.size - size_to_reduce
      updated_position ==
        [position EXCEPT !.collateral = new_collateral_i128,
                         !.size = new_size,
                         !.entry_funding_long =
                            get_cumulative_funding(r1.st, position.market_id, TRUE),
                         !.entry_funding_short =
                            get_cumulative_funding(r1.st, position.market_id, FALSE),
                         !.liquidation_price =
                            calculate_liquidation_price(position.entry_price,
                                                        new_collateral_i128, new_size,
                                                        position.is_long),
                         !.last_interaction = s.now]
  IN IF new_collateral_i128 <= 0 THEN Fail(s)
     ELSE IF ~r1.ok THEN r1
     ELSE Ok(set_position(r1.st, position_id, updated_position), realized_pnl)

execute_partial_close(s, position_id, position, size_to_reduce, current_price) ==
  LET total_pnl == calculate_pnl(s, position, current_price)
      proportion == TDiv(size_to_reduce * 10000, position.size)
      realized_pnl == TDiv(total_pnl * proportion, 10000)
      new_collateral_i128 == position.collateral + realized_pnl
      r1 == realize_reduction(s, position_id, position, size_to_reduce, realized_pnl)
      new_size == position.size - size_to_reduce
      updated_position ==
        [position EXCEPT !.collateral = new_collateral_i128,
                         !.size = new_size,
                         !.entry_funding_long =
                            get_cumulative_funding(r1.st, position.market_id, TRUE),
                         !.entry_funding_short =
                            get_cumulative_funding(r1.st, position.market_id, FALSE),
                         !.liquidation_price =
                            calculate_liquidation_price(position.entry_price,
                                                        new_collateral_i128, new_size,
                                                        position.is_long),
                         !.last_interaction = s.now]
      s2 == set_position(r1.st, position_id, updated_position)
      s3 == rescale_orders_from(s2, get_position_orders_list(s2, position_id), 1, new_size)
  IN IF new_collateral_i128 <= 0 THEN Fail(s)
     ELSE IF ~r1.ok THEN r1
     ELSE Ok(s3, realized_pnl)

execute_sl_tp_order(s, order, current_price) ==
  IF order.position_id \notin DOMAIN s.positions THEN Fail(s)
  ELSE LET position == s.positions[order.position_id]
           calculated == TDiv(position.size * order.close_percentage, 10000)
           size_to_close == IF order.close_percentage = 10000 THEN position.size
                            ELSE IF calculated > position.size THEN position.size
                            ELSE calculated
       IN IF position.trader # order.trader THEN Fail(s)
          ELSE IF size_to_close >= position.size
               THEN execute_full_close(s, order.position_id, position, current_price,
                                       order.order_id)
               ELSE execute_partial_close(s, order.position_id, position,
                                          size_to_close, current_price)

\* ------------------------------------------------------------------------
\* PositionManager: orders
\* ------------------------------------------------------------------------
create_limit_order(s, trader, market_id, trigger_price, acceptable_price, collateral, leverage, is_long, execution_fee, expiration) ==
  LET size == collateral * leverage
      r1 == transfer(s, trader, PM, execution_fee + collateral)
      order_id == r1.st.next_order_id
      s2 == [r1.st EXCEPT !.next_order_id = @ + 1]
      order == [order_id |-> order_id, order_type |-> "Limit", trader |-> trader,
                market_id |-> market_id, position_id |-> 0,
                trigger_price |-> trigger_price,
                acceptable_price |-> acceptable_price, collateral |-> collateral,
                size |-> size, leverage |-> leverage, is_long |-> is_long,
                close_percentage |-> 0, execution_fee |-> execution_fee,
                expiration |-> expiration, created_at |-> s.now]
      s3 == add_market_order(add_user_order(set_order(s2, order_id, order),
                                            trader, order_id),
                             market_id, order_id)
  IN IF trigger_price <= 0 \/ collateral = 0 THEN Fail(s)
     ELSE IF ~validate_leverage(leverage) THEN Fail(s)
     ELSE IF ~validate_execution_fee(execution_fee) THEN Fail(s)
     ELSE IF market_id \notin DOMAIN s.markets THEN Fail(s)
     ELSE IF is_market_paused(s, market_id) THEN Fail(s)
     ELSE IF ~validate_position_size(size) THEN Fail(s)
     ELSE IF ~r1.ok THEN r1
     ELSE Ok(s3, order_id)

\* Escrow of the fee and storage of the order, common to create_stop_loss
\* and create_take_profit.
store_attached_order(s, order_type, trader, position_id, position, trigger_price, acceptable_price, close_percentage, execution_fee, expiration) ==
  LET r1 == transfer(s, trader, PM, execution_fee)
      size_to_close == TDiv(position.size * close_percentage, 10000)
      order_id == r1.st.next_order_id
      s2 == [r1.st EXCEPT !.next_order_id = @ + 1]
      order == [order_id |-> order_id, order_type |-> order_type, trader |-> trader,
                market_id |-> position.market_id, position_id |-> position_id,
                trigger_price |-> trigger_price,
                acceptable_price |-> acceptable_price, collateral |-> 0,
                size |-> size_to_close, leverage |-> 0, is_long |-> position.is_long,
                close_percentage |-> close_percentage,
                execution_fee |-> execution_fee, expiration |-> expiration,
                created_at |-> s.now]
      s3 == add_user_order(set_order(s2, order_id, order), trader, order_id)
      s4 == add_market_order(add_position_order(s3, position_id, order_id),
                             position.market_id, order_id)
  IN IF ~r1.ok THEN r1 ELSE Ok(s4, order_id)

\* create_stop_loss that compares the trigger with the current price only.
create_stop_loss_ignores_liquidation_price(s, trader, position_id, trigger_price, acceptable_price, close_percentage, execution_fee, expiration) ==
  IF position_id \notin DOMAIN s.positions THEN Fail(s)
  ELSE LET position == s.positions[position_id]
           current_price == s.price[position.market_id]
       IN IF position.trader # trader THEN Fail(s)
          ELSE IF close_percentage = 0 \/ close_percentage > 10000 THEN Fail(s)
          ELSE IF ~validate_execution_fee(execution_fee) THEN Fail(s)
          ELSE IF position.is_long /\ trigger_price >= current_price THEN Fail(s)
          ELSE IF ~position.is_long /\ trigger_price <= current_price THEN Fail(s)
          ELSE store_attached_order(s, "StopLoss", trader, position_id, position,
                                    trigger_price, acceptable_price,
                                    close_percentage, execution_fee, expiration)

create_stop_loss(s, trader, position_id, trigger_price, acceptable_price, close_percentage, execution_fee, expiration) ==
  IF position_id \notin DOMAIN s.positions THEN Fail(s)
  ELSE LET position == s.positions[position_id]
           current_price == s.price[position.market_id]
       IN IF position.trader # trader THEN Fail(s)
          ELSE IF close_percentage = 0 \/ close_percentage > 10000 THEN Fail(s)
          ELSE IF ~validate_execution_fee(execution_fee) THEN Fail(s)
          ELSE IF position.is_long /\ trigger_price >= current_price THEN Fail(s)
          ELSE IF position.is_long /\ trigger_price <= position.liquidation_price
               THEN Fail(s)
          ELSE IF ~position.is_long /\ trigger_price <= current_price THEN Fail(s)
          ELSE IF ~position.is_long /\ trigger_price >= position.liquidation_price
               THEN Fail(s)
          ELSE store_attached_order(s, "StopLoss", trader, position_id, position,
                                    trigger_price, acceptable_price,
                                    close_percentage, execution_fee, expiration)

create_take_profit(s, trader, position_id, trigger_price, acceptable_price, close_percentage, execution_fee, expiration) ==
  IF position_id \notin DOMAIN s.positions THEN Fail(s)
  ELSE LET position == s.positions[position_id]
           current_price == s.price[position.market_id]
       IN IF position.trader # trader THEN Fail(s)
          ELSE IF close_percentage = 0 \/ close_percentage > 10000 THEN Fail(s)
          ELSE IF ~validate_execution_fee(execution_fee) THEN Fail(s)
          ELSE IF position.is_long /\ trigger_price <= current_price THEN Fail(s)
          ELSE IF ~position.is_long /\ trigger_price >= current_price THEN Fail(s)
          ELSE store_attached_order(s, "TakeProfit", trader, position_id, position,
                                    trigger_price, acceptable_price,
                                    close_percentage, execution_fee, expiration)

\* cancel_order that refunds the execution fee only, whatever the order type.
cancel_order_refunds_fee_only(s, trader, order_id) ==
  IF ~order_exists(s, order_id) THEN Fail(s)
  ELSE LET order == s.orders[order_id]
           r1 == transfer(s, PM, trader, order.execution_fee)
       IN IF order.trader # trader THEN Fail(s)
          ELSE IF ~r1.ok THEN r1
          ELSE Ok(cleanup_order(r1.st, order), 0)

\* cancel_order without the ownership check: the refund goes to the caller.
cancel_order_by_any_caller(s, trader, order_id) ==
  IF ~order_exists(s, order_id) THEN Fail(s)
  ELSE LET order == s.orders[order_id]
           refund_amount == IF order.order_type = "Limit"
                            THEN order.execution_fee + order.collateral
                            ELSE order.execution_fee
           r1 == transfer(s, PM, trader, refund_amount)
       IN IF ~r1.ok THEN r1
          ELSE Ok(cleanup_order(r1.st, order), 0)

cancel_order(s, trader, order_id) ==
  IF ~order_exists(s, order_id) THEN Fail(s)
  ELSE LET order == s.orders[order_id]
           refund_amount == IF order.order_type = "Limit"
                            THEN order.execution_fee + order.collateral
                            ELSE order.execution_fee
           r1 == transfer(s, PM, trader, refund_amount)
       IN IF order.trader # trader THEN Fail(s)
          ELSE IF ~r1.ok THEN r1
          ELSE Ok(cleanup_order(r1.st, order), 0)

\* execute_order that leaves the executed order in the trader's order list.
execute_order_keeps_user_index(s, keeper, order_id) ==
  IF ~order_exists(s, order_id) THEN Fail(s)
  ELSE
    LET order == s.orders[order_id]
        rx == transfer(s, PM, order.trader, order.execution_fee)
        current_price == s.price[order.market_id]
        r1 == IF order.order_type = "Limit"
              THEN execute_limit_order(s, order)
              ELSE execute_sl_tp_order(s, order, current_price)
        r2 == transfer(r1.st, PM, keeper, order.execution_fee)
        s3 == remove_market_order(remove_order(r2.st, order.order_id),
                                  order.market_id, order.order_id)
        s4 == IF order.position_id > 0
              THEN remove_position_order(s3, order.position_id, order.order_id)
              ELSE s3
    IN IF order.expiration > 0 /\ s.now > order.expiration
       THEN IF ~rx.ok THEN rx ELSE Fail(cleanup_order(rx.st, order))
       ELSE IF is_market_paused(s, order.market_id) THEN Fail(s)
       ELSE IF ~check_order_trigger(order, current_price) THEN Fail(s)
       ELSE IF ~check_acceptable_price(order, current_price) THEN Fail(s)
       ELSE IF ~r1.ok THEN Fail(r1.st)
       ELSE IF ~r2.ok THEN r2
       ELSE Ok(s4, r1.ret)

execute_order(s, keeper, order_id) ==
  IF ~order_exists(s, order_id) THEN Fail(s)
  ELSE
    LET order == s.orders[order_id]
        rx == transfer(s, PM, order.trader, order.execution_fee)
        current_price == s.price[order.market_id]
        r1 == IF order.order_type = "Limit"
              THEN execute_limit_order(s, order)
              ELSE execute_sl_tp_order(s, order, current_price)
        r2 == transfer(r1.st, PM, keeper, order.execution_fee)
        s3 == remove_market_order(
                remove_user_order(remove_order(r2.st, order.order_id),
                                  order.trader, order.order_id),
                order.market_id, order.order_id)
        s4 == IF order.position_id > 0
              THEN remove_position_order(s3, order.position_id, order.order_id)
              ELSE s3
    IN IF order.expiration > 0 /\ s.now > order.expiration
       THEN IF ~rx.ok THEN rx ELSE Fail(cleanup_order(rx.st, order))
       ELSE IF is_market_paused(s, order.market_id) THEN Fail(s)
       ELSE IF ~check_order_trigger(order, current_price) THEN Fail(s)
       ELSE IF ~check_acceptable_price(order, current_price) THEN Fail(s)
       ELSE IF ~r1.ok THEN Fail(r1.st)
       ELSE IF ~r2.ok THEN r2
       ELSE Ok(s4, r1.ret)

\* ------------------------------------------------------------------------
\* Transaction boundary, initial state and actions
\* ------------------------------------------------------------------------
\* A ledger that keeps what a panicking invocation wrote before the panic.
CommitPartialWrites(s, r) == r.st

\* A panic aborts the invocation: the ledger keeps the state before the call.
Commit(s, r) == IF r.ok THEN r.st ELSE s

Apply(st) ==
  /\ positions' = st.positions
  /\ next_position_id' = st.next_position_id
  /\ user_positions' = st.user_positions
  /\ orders' = st.orders
  /\ next_order_id' = st.next_order_id
  /\ user_orders' = st.user_orders
  /\ position_orders' = st.position_orders
  /\ market_orders' = st.market_orders
  /\ markets' = st.markets
  /\ total_shares' = st.total_shares
  /\ total_deposits' = st.total_deposits
  /\ shares' = st.shares
  /\ reserved_liquidity' = st.reserved_liquidity
  /\ position_collateral' = st.position_collateral
  /\ pool_position_manager' = st.pool_position_manager
  /\ market_position_manager' = st.market_position_manager
  /\ balance' = st.balance
  /\ price' = st.price
  /\ now' = st.now

\* One invocation: the committed state and the record of the call.
Invoke(op, caller, id, r) ==
  /\ calls_left > 0
  /\ calls_left' = IF r.ok THEN calls_left - 1 ELSE calls_left
  /\ Apply(Commit(cur, r))
  /\ last' = IF r.ok
             THEN [op |-> op, ok |-> TRUE, caller |-> caller, id |-> id, ret |-> r.ret]
             ELSE [op |-> "rejected", ok |-> FALSE, caller |-> NONE, id |-> 0, ret |-> 0]

EmptyMap == [x \in {} |-> 0]

InitMarket == [max_open_interest |-> MaxOpenInterest,
               long_open_interest |-> 0, short_open_interest |-> 0,
               funding_rate |-> 0, last_funding_update |-> 0,
               cumulative_funding_long |-> 0, cumulative_funding_short |-> 0,
               is_paused |-> FALSE, base_funding_rate |-> BaseFundingRate,
               max_funding_rate |-> MaxFundingRate]

InitContracts ==
  /\ positions = EmptyMap
  /\ next_position_id = 1
  /\ user_positions = [t \in Traders |-> <<>>]
  /\ orders = EmptyMap
  /\ next_order_id = 1
  /\ user_orders = [t \in Traders |-> <<>>]
  /\ position_orders = EmptyMap
  /\ market_orders = [m \in Markets |-> <<>>]
  /\ markets = [m \in Markets |-> InitMarket]
  /\ total_shares = 1300
  /\ total_deposits = 1300
  /\ shares = [a \in Accounts |-> IF a \in LPs THEN 1300 ELSE 0]
  /\ reserved_liquidity = 0
  /\ position_collateral = EmptyMap
  /\ balance = [a \in Accounts |->
                  IF a \in Traders THEN 1000
                  ELSE IF a \in LPs THEN 1300
                  ELSE IF a = POOL THEN 1300 ELSE 0]
  /\ price = [m \in Markets |-> 100]
  /\ now = 0
  /\ last = [op |-> "init", ok |-> TRUE, caller |-> NONE, id |-> 0, ret |-> 0]

\* The deployment the tests build: the position manager is registered with
\* the pool and with the market manager.
InitLedger ==
  /\ InitContracts
  /\ pool_position_manager = PM
  /\ market_position_manager = PM

Init == InitLedger /\ calls_left = MaxCalls

InitOrders == InitLedger /\ calls_left = MaxOrderCalls

InitFunding == InitLedger /\ calls_left = MaxFundingCalls

InitPool == InitLedger /\ calls_left = MaxPoolCalls

PositionIds == 1..MaxPositionId
OrderIds == 1..MaxOrderId

OpenPosition(trader, market_id, collateral, leverage, is_long) ==
  /\ next_position_id <= MaxPositionId
  /\ Invoke("open_position", trader, next_position_id,
            open_position(cur, trader, market_id, collateral, leverage, is_long))

ClosePosition(trader, position_id) ==
  Invoke("close_position", trader, position_id,
         close_position(cur, trader, position_id))

IncreasePosition(trader, position_id, additional_collateral, additional_size) ==
  Invoke("increase_position", trader, position_id,
         increase_position(cur, trader, position_id, additional_collateral,
                           additional_size))

DecreasePosition(trader, position_id, collateral_to_remove, size_to_reduce) ==
  Invoke("decrease_position", trader, position_id,
         decrease_position(cur, trader, position_id, collateral_to_remove,
                           size_to_reduce))

LiquidatePosition(keeper, position_id) ==
  Invoke("liquidate_position", keeper, position_id,
         liquidate_position(cur, keeper, position_id))

CreateLimitOrder(trader, market_id, trigger_price, collateral, leverage, is_long, execution_fee, expiration) ==
  /\ next_order_id <= MaxOrderId
  /\ next_position_id <= MaxPositionId
  /\ Invoke("create_limit_order", trader, next_order_id,
            create_limit_order(cur, trader, market_id, trigger_price, 0, collateral,
                               leverage, is_long, execution_fee, expiration))

CreateStopLoss(trader, position_id, trigger_price, close_percentage, execution_fee, expiration) ==
  /\ next_order_id <= MaxOrderId
  /\ Invoke("create_stop_loss", trader, next_order_id,
            create_stop_loss(cur, trader, position_id, trigger_price, 0,
                             close_percentage, execution_fee, expiration))

CreateTakeProfit(trader, position_id, trigger_price, close_percentage, execution_fee, expiration) ==
  /\ next_order_id <= MaxOrderId
  /\ Invoke("create_take_profit", trader, next_order_id,
            create_take_profit(cur, trader, position_id, trigger_price, 0,
                               close_percentage, execution_fee, expiration))

CancelOrder(trader, order_id) ==
  Invoke("cancel_order", trader, order_id, cancel_order(cur, trader, order_id))

ExecuteOrder(keeper, order_id) ==
  /\ (order_id \in DOMAIN orders /\ orders[order_id].order_type = "Limit")
        => next_position_id <= MaxPositionId
  /\ Invoke("execute_order", keeper, order_id, execute_order(cur, keeper, order_id))

Deposit(user, amount) ==
  Invoke("deposit", user, 0, deposit(cur, user, amount))

Withdraw(user, sh) ==
  Invoke("withdraw", user, 0, withdraw(cur, user, sh))

\* The oracle publishes a new price.
SetPrice(market_id, p) ==
  /\ price[market_id] # p
  /\ Apply([cur EXCEPT !.price[market_id] = p])
  /\ UNCHANGED calls_left
  /\ last' = [op |-> "set_price", ok |-> TRUE, caller |-> NONE, id |-> 0, ret |-> 0]

\* Ledger time advances.
AdvanceTime(d) ==
  /\ now < MaxTicks * d
  /\ Apply([cur EXCEPT !.now = @ + d])
  /\ UNCHANGED calls_left
  /\ last' = [op |-> "advance_time", ok |-> TRUE, caller |-> NONE, id |-> 0, ret |-> 0]

Next ==
  \/ \E t \in Openers, m \in Markets, c \in Collaterals, l \in Leverages,
        is_long \in BOOLEAN : OpenPosition(t, m, c, l, is_long)
  \/ \E t \in Traders, p \in PositionIds : ClosePosition(t, p)
  \/ \E t \in Traders, p \in PositionIds, c \in {0} \cup CollateralSteps,
        z \in {0} \cup SizeSteps : IncreasePosition(t, p, c, z)
  \/ \E t \in Traders, p \in PositionIds, c \in {0} \cup CollateralSteps,
        z \in {0} \cup SizeSteps : DecreasePosition(t, p, c, z)
  \/ \E k \in Keepers, p \in PositionIds : LiquidatePosition(k, p)
  \/ \E t \in Openers, m \in Markets, tp \in LimitTriggers, c \in Collaterals,
        l \in Leverages, is_long \in BOOLEAN, f \in ExecutionFees,
        e \in Expirations : CreateLimitOrder(t, m, tp, c, l, is_long, f, e)
  \/ \E t \in Openers, p \in PositionIds, tp \in StopLossTriggers,
        cp \in ClosePercentages, f \in ExecutionFees, e \in Expirations :
        CreateStopLoss(t, p, tp, cp, f, e)
  \/ \E t \in Openers, p \in PositionIds, tp \in TakeProfitTriggers,
        cp \in ClosePercentages, f \in ExecutionFees, e \in Expirations :
        CreateTakeProfit(t, p, tp, cp, f, e)
  \/ \E t \in Traders, o \in OrderIds : CancelOrder(t, o)
  \/ \E k \in Keepers, o \in OrderIds : ExecuteOrder(k, o)
  \/ \E u \in LPs, a \in DepositAmounts : Deposit(u, a)
  \/ \E u \in LPs, sh \in ShareAmounts : Withdraw(u, sh)
  \/ \E m \in Markets, p \in Prices : SetPrice(m, p)
  \/ \E d \in TickSeconds : AdvanceTime(d)

Spec == Init /\ [][Next]_vars

UpdateFundingRate(caller, market_id) ==
  Invoke("update_funding_rate", caller, market_id,
         update_funding_rate(cur, caller, market_id))

PauseMarket(admin, market_id) ==
  /\ ~markets[market_id].is_paused
  /\ Invoke("pause_market", admin, market_id, pause_market(cur, admin, market_id))

UnpauseMarket(admin, market_id) ==
  /\ markets[market_id].is_paused
  /\ Invoke("unpause_market", admin, market_id,
            unpause_market(cur, admin, market_id))

\* Ledger time advances, up to the ticks of a funding behaviour.
AdvanceTimeFunding(d) ==
  /\ now < MaxFundingTicks * d
  /\ Apply([cur EXCEPT !.now = @ + d])
  /\ UNCHANGED calls_left
  /\ last' = [op |-> "advance_time", ok |-> TRUE, caller |-> NONE, id |-> 0, ret |-> 0]

\* Markets under pausing and funding updates, with the operations that open,
\* grow, close and liquidate positions and place and execute limit orders.
NextFunding ==
  \/ \E t \in Openers, m \in Markets, c \in Collaterals, l \in Leverages,
        is_long \in BOOLEAN : OpenPosition(t, m, c, l, is_long)
  \/ \E t \in Traders, p \in PositionIds : ClosePosition(t, p)
  \/ \E t \in Openers, p \in PositionIds, z \in SizeSteps :
        IncreasePosition(t, p, 0, z)
  \/ \E k \in Keepers, p \in PositionIds : LiquidatePosition(k, p)
  \/ \E t \in Openers, m \in Markets, tp \in LimitTriggers, c \in Collaterals,
        l \in Leverages, is_long \in BOOLEAN, f \in ExecutionFees :
        CreateLimitOrder(t, m, tp, c, l, is_long, f, 0)
  \/ \E k \in Keepers, o \in OrderIds : ExecuteOrder(k, o)
  \/ \E k \in Keepers, m \in Markets : UpdateFundingRate(k, m)
  \/ \E a \in {ADMIN} \cup Keepers, m \in Markets : PauseMarket(a, m)
  \/ \E a \in {ADMIN} \cup Keepers, m \in Markets : UnpauseMarket(a, m)
  \/ \E m \in Markets, p \in Prices : SetPrice(m, p)
  \/ \E d \in TickSeconds : AdvanceTimeFunding(d)

SpecFunding == InitFunding /\ [][NextFunding]_vars

\* Several liquidity providers depositing and withdrawing while trading moves
\* the pool balance away from total_deposits.
NextPool ==
  \/ \E u \in PoolUsers, a \in PoolDepositAmounts : Deposit(u, a)
  \/ \E u \in PoolUsers, sh \in PoolShareAmounts : Withdraw(u, sh)
  \/ \E t \in Openers, m \in Markets, c \in Collaterals, l \in Leverages,
        is_long \in BOOLEAN : OpenPosition(t, m, c, l, is_long)
  \/ \E t \in Traders, p \in PositionIds : ClosePosition(t, p)
  \/ \E k \in Keepers, p \in PositionIds : LiquidatePosition(k, p)
  \/ \E m \in Markets, p \in Prices : SetPrice(m, p)

SpecPool == InitPool /\ [][NextPool]_vars

\* The order lifecycle on its own, with one more invocation per behaviour.
NextOrders ==
  \/ \E t \in Openers, m \in Markets, c \in Collaterals, l \in Leverages,
        is_long \in BOOLEAN : OpenPosition(t, m, c, l, is_long)
  \/ \E t \in Traders, p \in PositionIds : ClosePosition(t, p)
  \/ \E k \in Keepers, p \in PositionIds : LiquidatePosition(k, p)
  \/ \E t \in Openers, p \in PositionIds, tp \in StopLossTriggers,
        cp \in ClosePercentages, f \in ExecutionFees :
        CreateStopLoss(t, p, tp, cp, f, 0)
  \/ \E t \in Openers, p \in PositionIds, tp \in TakeProfitTriggers,
        cp \in ClosePercentages, f \in ExecutionFees :
        CreateTakeProfit(t, p, tp, cp, f, 0)
  \/ \E t \in Traders, o \in OrderIds : CancelOrder(t, o)
  \/ \E k \in Keepers, o \in OrderIds : ExecuteOrder(k, o)
  \/ \E m \in Markets, p \in Prices : SetPrice(m, p)

SpecOrders == InitOrders /\ [][NextOrders]_vars

\* Access control: the contracts start with no position manager registered,
\* the admin (or somebody else) registers one, and outside accounts call the
\* restricted entry points of the pool and of the market manager directly
\* while positions are opened and closed through the position manager.
Registrants == {ADMIN, "t2"}
Managers == {PM, "t2"}
DirectCallers == {"t2", "k1"}
PnlAmounts == {50}
SizeDeltas == {500, -500}

InitAccess ==
  /\ InitContracts
  /\ pool_position_manager = NONE
  /\ market_position_manager = NONE
  /\ calls_left = MaxAccessCalls

SetPoolPositionManager(admin, position_manager) ==
  /\ pool_position_manager # position_manager
  /\ Invoke("pool_set_position_manager", admin, 0,
            pool_set_position_manager(cur, admin, position_manager))

SetMarketPositionManager(admin, position_manager) ==
  /\ market_position_manager # position_manager
  /\ Invoke("market_set_position_manager", admin, 0,
            market_set_position_manager(cur, admin, position_manager))

ReserveLiquidity(caller, position_id, size, collateral) ==
  Invoke("reserve_liquidity", caller, position_id,
         reserve_liquidity(cur, caller, position_id, size, collateral))

ReleaseLiquidity(caller, position_id, size) ==
  Invoke("release_liquidity", caller, position_id,
         release_liquidity(cur, caller, position_id, size))

DepositPositionCollateral(caller, position_id, trader, amount) ==
  Invoke("deposit_position_collateral", caller, position_id,
         deposit_position_collateral(cur, caller, position_id, trader, amount))

RecordPositionCollateral(caller, position_id, amount) ==
  Invoke("record_position_collateral", caller, position_id,
         record_position_collateral(cur, caller, position_id, amount))

WithdrawPositionCollateral(caller, position_id, trader, amount) ==
  Invoke("withdraw_position_collateral", caller, position_id,
         withdraw_position_collateral(cur, caller, position_id, trader, amount))

SettleTraderPnl(caller, trader, pnl) ==
  Invoke("settle_trader_pnl", caller, 0, settle_trader_pnl(cur, caller, trader, pnl))

UpdateOpenInterest(caller, market_id, is_long, size_delta) ==
  Invoke("update_open_interest", caller, market_id,
         update_open_interest(cur, caller, market_id, is_long, size_delta))

NextAccess ==
  \/ \E a \in Registrants, pm \in Managers : SetPoolPositionManager(a, pm)
  \/ \E a \in Registrants, pm \in Managers : SetMarketPositionManager(a, pm)
  \/ \E c \in DirectCallers, p \in PositionIds, z \in SizeSteps,
        a \in CollateralSteps : ReserveLiquidity(c, p, z, a)
  \/ \E c \in DirectCallers, p \in PositionIds, z \in SizeSteps :
        ReleaseLiquidity(c, p, z)
  \/ \E c \in DirectCallers, p \in PositionIds, t \in Openers,
        a \in CollateralSteps : DepositPositionCollateral(c, p, t, a)
  \/ \E c \in DirectCallers, p \in PositionIds, a \in CollateralSteps :
        RecordPositionCollateral(c, p, a)
  \/ \E c \in DirectCallers, p \in PositionIds, t \in DirectCallers,
        a \in CollateralSteps : WithdrawPositionCollateral(c, p, t, a)
  \/ \E c \in DirectCallers, t \in DirectCallers, a \in PnlAmounts :
        SettleTraderPnl(c, t, a)
  \/ \E c \in DirectCallers, m \in Markets, is_long \in BOOLEAN,
        d \in SizeDeltas : UpdateOpenInterest(c, m, is_long, d)
  \/ \E t \in Openers, m \in Markets, c \in Collaterals, l \in Leverages,
        is_long \in BOOLEAN : OpenPosition(t, m, c, l, is_long)
  \/ \E t \in Traders, p \in PositionIds : ClosePosition(t, p)

SpecAccess == InitAccess /\ [][NextAccess]_vars

\* ------------------------------------------------------------------------
\* Properties
\* ------------------------------------------------------------------------
RECURSIVE SumOfSizes(_, _)
SumOfSizes(ps, ids) ==
  IF ids = {} THEN 0
  ELSE LET id == CHOOSE x \in ids : TRUE
       IN ps[id].size + SumOfSizes(ps, ids \ {id})

StoredIds(market_id, is_long) ==
  {id \in DOMAIN positions :
     positions[id].market_id = market_id /\ positions[id].is_long = is_long}

\* C1: in every reachable state, each market's long open interest and its
\* short open interest are at most the market's max_open_interest.
C1_OpenInterestWithinCap ==
  \A m \in DOMAIN markets :
    /\ markets[m].long_open_interest <= markets[m].max_open_interest
    /\ markets[m].short_open_interest <= markets[m].max_open_interest

\* An increase_position has just brought the long side exactly to the cap.
C1_Witness ==
  /\ last.op = "increase_position" /\ last.ok
  /\ \E m \in DOMAIN markets :
       markets[m].long_open_interest = markets[m].max_open_interest

\* C2: in every reachable state reserved_liquidity is the sum of the sizes
\* of the stored positions, each market's long (short) open interest is the
\* sum of the sizes of its stored long (short) positions, and all of them
\* are 0 when no position is stored.
C2_ReservedAndOpenInterestAreSums ==
  /\ reserved_liquidity = SumOfSizes(positions, DOMAIN positions)
  /\ \A m \in DOMAIN markets :
       /\ markets[m].long_open_interest = SumOfSizes(positions, StoredIds(m, TRUE))
       /\ markets[m].short_open_interest = SumOfSizes(positions, StoredIds(m, FALSE))
  /\ positions = EmptyMap =>
       /\ reserved_liquidity = 0
       /\ \A m \in DOMAIN markets :
            markets[m].long_open_interest = 0 /\ markets[m].short_open_interest = 0

\* A long and a short position are stored side by side.
C2_Witness ==
  /\ last.op = "open_position" /\ last.ok
  /\ \E m \in DOMAIN markets :
       StoredIds(m, TRUE) # {} /\ StoredIds(m, FALSE) # {}

\* C3: in every reachable state reserved_liquidity is at most the pool's
\* token balance (available liquidity is never negative).
C3_ReservedWithinPoolBalance == reserved_liquidity <= balance[POOL]

Attached(position_id) ==
  {o \in DOMAIN orders : orders[o].position_id = position_id}

RECURSIVE SumOfFees(_, _)
SumOfFees(os, ids) ==
  IF ids = {} THEN 0
  ELSE LET id == CHOOSE x \in ids : TRUE
       IN os[id].execution_fee + SumOfFees(os, ids \ {id})

\* C5: a successful close_position returns pnl and moves from the pool to
\* the trader exactly collateral + pnl when pnl >= 0 and exactly
\* max(0, collateral + pnl) when pnl < 0; in the loss case what moves is
\* taken from the position's ledger entry and is at most its collateral.
C5_ClosePaysCollateralPlusPnl ==
  \A id \in DOMAIN positions :
    LET p == positions[id]
        r == close_position(cur, p.trader, id)
        pnl == calculate_pnl(cur, p, price[p.market_id])
        payout == IF pnl >= 0 THEN p.collateral + pnl
                  ELSE IF p.collateral + pnl > 0 THEN p.collateral + pnl ELSE 0
        refunds == SumOfFees(orders, Attached(id))
    IN r.ok =>
         /\ r.ret = pnl
         /\ r.st.balance[p.trader] = balance[p.trader] + payout + refunds
         /\ r.st.balance[POOL] = balance[POOL] - payout
         /\ get_position_collateral(cur, id) - get_position_collateral(r.st, id)
              = IF pnl >= 0 THEN p.collateral ELSE payout
         /\ pnl < 0 => payout <= p.collateral

\* A position has just been closed at a loss smaller than its collateral.
C5_Witness ==
  /\ last.op = "close_position" /\ last.ok
  /\ \E c \in Collaterals : last.ret < 0 /\ c + last.ret > 0

\* No order of the set is left in the order store or in an index.
OrdersGone(st, ids, position_id) ==
  \A o \in ids :
    /\ o \notin DOMAIN st.orders
    /\ \A t \in DOMAIN st.user_orders : o \notin SeqToSet(st.user_orders[t])
    /\ \A m \in DOMAIN st.market_orders : o \notin SeqToSet(st.market_orders[m])
    /\ \A q \in DOMAIN st.position_orders : o \notin SeqToSet(st.position_orders[q])

\* C6: after a successful close_position, liquidate_position or full-size
\* stop-loss/take-profit execution on a position, no order attached to it is
\* left in storage or in an index; the escrow gives back the fee of each
\* attached order once, to the trader, except the fee of the executing
\* order, which goes to the keeper.
C6_AttachedOrdersCancelledAndRefunded ==
  \A id \in DOMAIN positions :
    LET p == positions[id]
        att == Attached(id)
        fees == SumOfFees(orders, att)
    IN /\ LET r == close_position(cur, p.trader, id)
          IN r.ok =>
               /\ OrdersGone(r.st, att, id)
               /\ r.st.balance[PM] = balance[PM] - fees
               /\ (r.st.balance[p.trader] - balance[p.trader])
                    + (r.st.balance[POOL] - balance[POOL]) = fees
       /\ \A k \in Keepers :
            LET r == liquidate_position(cur, k, id)
            IN r.ok =>
                 /\ OrdersGone(r.st, att, id)
                 /\ r.st.balance[PM] = balance[PM] - fees
                 /\ r.st.balance[p.trader] = balance[p.trader] + fees
       /\ \A k \in Keepers, o \in att :
            LET r == execute_order(cur, k, o)
            IN (r.ok /\ orders[o].close_percentage = 10000) =>
                 /\ id \notin DOMAIN r.st.positions
                 /\ OrdersGone(r.st, att, id)
                 /\ r.st.balance[PM] = balance[PM] - fees
                 /\ r.st.balance[k] = balance[k] + orders[o].execution_fee
                 /\ (r.st.balance[p.trader] - balance[p.trader])
                      + (r.st.balance[POOL] - balance[POOL])
                      = fees - orders[o].execution_fee

\* A keeper has just executed one of the two orders attached to a position:
\* the position and both orders are gone, the keeper holds one fee and the
\* escrow is empty.
C6_Witness ==
  /\ last.op = "execute_order" /\ last.ok
  /\ positions = EmptyMap /\ orders = EmptyMap
  /\ next_order_id = 3
  /\ balance[PM] = 0
  /\ \E f \in ExecutionFees : balance[last.caller] = f

\* C7: liquidate_position on a stored position succeeds if and only if
\* collateral + pnl <= size * 100 / 10000 at the current price, and when it
\* fails the positions, orders, markets and reserved liquidity are unchanged.
C7_LiquidationSucceedsIffUnderMargin ==
  \A k \in Keepers, id \in DOMAIN positions :
    LET p == positions[id]
        pnl == calculate_pnl(cur, p, price[p.market_id])
        r == liquidate_position(cur, k, id)
        after == Commit(cur, r)
    IN /\ r.ok <=> (p.collateral + pnl <= TDiv(p.size * 100, 10000))
       /\ ~r.ok => /\ after.positions = positions
                   /\ after.orders = orders
                   /\ after.markets = markets
                   /\ after.reserved_liquidity = reserved_liquidity

\* C8: a successful liquidate_position pays the keeper exactly
\* min((size * liquidation_fee_bps / 10000) * 60 / 100, collateral) out of
\* the pool, returns that amount, and pays the liquidated trader nothing
\* but the fees of the orders cancelled with the position.
C8_LiquidationPaysKeeperCappedReward ==
  \A id \in DOMAIN positions :
    \A k \in Accounts \ {POOL, PM, positions[id].trader} :
      LET p == positions[id]
          reward == TDiv(TDiv(p.size * LiquidationFeeBps, 10000) * 60, 100)
          capped == IF reward < p.collateral THEN reward ELSE p.collateral
          r == liquidate_position(cur, k, id)
      IN r.ok =>
           /\ r.ret = capped
           /\ r.st.balance[k] = balance[k] + capped
           /\ r.st.balance[POOL] = balance[POOL] - capped
           /\ r.st.balance[p.trader]
                = balance[p.trader] + SumOfFees(orders, Attached(id))

\* A liquidation has just paid the keeper the whole collateral of a position
\* whose collateral was below 60% of the liquidation fee.
C8_Witness ==
  /\ last.op = "liquidate_position" /\ last.ok
  /\ last.ret > 0
  /\ balance[last.caller] = last.ret
  /\ \E c \in Collaterals, l \in Leverages :
       last.ret < TDiv(TDiv(c * l * LiquidationFeeBps, 10000) * 60, 100)

\* C9: execute_order by a keeper on an order whose expiration is non-zero
\* and earlier than the current time executes nothing and pays the keeper
\* nothing, and afterwards the order is gone from storage and from every
\* index with its whole escrow back with the trader.
C9_ExpiredOrderIsRemovedAndRefunded ==
  \A k \in Keepers, o \in DOMAIN orders :
    (orders[o].expiration # 0 /\ orders[o].expiration < now) =>
      LET order == orders[o]
          after == Commit(cur, execute_order(cur, k, o))
          escrow == order.execution_fee
                      + (IF order.order_type = "Limit" THEN order.collateral ELSE 0)
      IN /\ after.positions = positions
         /\ after.balance[k] = balance[k]
         /\ OrdersGone(after, {o}, order.position_id)
         /\ after.balance[order.trader] = balance[order.trader] + escrow

\* C10: creating an order and cancelling it at once by the same trader puts
\* back the trader's balance, the escrow balance and the user, market and
\* position order lists; the creation escrows fee + collateral for a Limit
\* order and the fee alone for a stop-loss or take-profit.
CreateThenCancelRestores(t, rc, escrow) ==
  rc.ok =>
    LET rx == cancel_order(rc.st, t, rc.ret)
    IN /\ rc.st.balance[t] = balance[t] - escrow
       /\ rc.st.balance[PM] = balance[PM] + escrow
       /\ rx.ok
       /\ rx.st.balance[t] = balance[t]
       /\ rx.st.balance[PM] = balance[PM]
       /\ rx.st.user_orders = user_orders
       /\ rx.st.market_orders = market_orders
       /\ \A p \in PositionIds :
            get_position_orders_list(rx.st, p) = get_position_orders_list(cur, p)
       /\ rx.st.orders = orders

C10_CreateThenCancelRestores ==
  \A t \in Traders, f \in ExecutionFees, e \in Expirations :
    /\ \A m \in Markets, tp \in LimitTriggers, c \in Collaterals, l \in Leverages,
          is_long \in BOOLEAN :
         CreateThenCancelRestores(
           t, create_limit_order(cur, t, m, tp, 0, c, l, is_long, f, e), f + c)
    /\ \A p \in PositionIds, cp \in ClosePercentages :
         /\ \A tp \in StopLossTriggers :
              CreateThenCancelRestores(
                t, create_stop_loss(cur, t, p, tp, 0, cp, f, e), f)
         /\ \A tp \in TakeProfitTriggers :
              CreateThenCancelRestores(
                t, create_take_profit(cur, t, p, tp, 0, cp, f, e), f)

\* An order has just been cancelled and the escrow is empty again.
C10_Witness ==
  /\ last.op = "cancel_order" /\ last.ok
  /\ orders = EmptyMap
  /\ balance[PM] = 0
  /\ \A t \in Traders : user_orders[t] = <<>>

\* The trigger predicate of an order kind and side at price p with trigger t.
TriggerTable(order_type, is_long, p, t) ==
  CASE order_type = "Limit" /\ is_long -> p <= t
    [] order_type = "Limit" /\ ~is_long -> p >= t
    [] order_type = "StopLoss" /\ is_long -> p <= t
    [] order_type = "StopLoss" /\ ~is_long -> p >= t
    [] order_type = "TakeProfit" /\ is_long -> p >= t
    [] order_type = "TakeProfit" /\ ~is_long -> p <= t

\* An order that execute_order does not reject as expired or paused.
Executable(o) ==
  /\ ~(orders[o].expiration > 0 /\ now > orders[o].expiration)
  /\ ~is_market_paused(cur, orders[o].market_id)

\* C11: for every stored order that is neither expired nor on a paused
\* market, execute_order is rejected (and the state kept) when the trigger
\* predicate of its kind and side is false at the current price, and when
\* the predicate is true the call is accepted exactly when the execution of
\* the order itself is: Limit long p <= t, Limit short p >= t, StopLoss long
\* p <= t, StopLoss short p >= t, TakeProfit long p >= t, TakeProfit short
\* p <= t.
C11_ExecuteOrderFollowsTrigger ==
  \A k \in Keepers, o \in DOMAIN orders :
    LET order == orders[o]
        p == price[order.market_id]
        r == execute_order(cur, k, o)
        inner == IF order.order_type = "Limit"
                 THEN execute_limit_order(cur, order)
                 ELSE execute_sl_tp_order(cur, order, p)
    IN Executable(o) =>
         IF TriggerTable(order.order_type, order.is_long, p, order.trigger_price)
         THEN r.ok = inner.ok
         ELSE ~r.ok /\ Commit(cur, r) = cur

\* A take-profit on a short position is stored with the price above its
\* trigger, and the keeper's call has just been rejected.
C11_Witness ==
  /\ last.ok = FALSE
  /\ \E o \in DOMAIN orders :
       /\ orders[o].order_type = "TakeProfit" /\ ~orders[o].is_long
       /\ Executable(o)
       /\ price[orders[o].market_id] > orders[o].trigger_price
       /\ \A k \in Keepers : ~execute_order(cur, k, o).ok

\* The ledger with the pause flag of a market lowered or raised.
WithPause(s, market_id, flag) == [s EXCEPT !.markets[market_id].is_paused = flag]

\* A call gives on the paused market what it gives on the unpaused one.
SameAsUnpaused(market_id, r_paused, r_unpaused) ==
  /\ r_paused.ok = r_unpaused.ok
  /\ r_paused.ok =>
       /\ r_paused.ret = r_unpaused.ret
       /\ r_paused.st = WithPause(r_unpaused.st, market_id, TRUE)

\* C12: while a market is paused, open_position, increase_position with
\* added size, create_limit_order and the execution of a Limit order on it
\* all fail, and close_position and liquidate_position on its positions are
\* accepted exactly as on the unpaused market, with the same return value
\* and the same resulting state.
C12_PauseBlocksOpensNotCloses ==
  \A m \in Markets :
    markets[m].is_paused =>
      /\ \A t \in Traders, c \in Collaterals, l \in Leverages, is_long \in BOOLEAN :
           /\ ~open_position(cur, t, m, c, l, is_long).ok
           /\ \A tp \in LimitTriggers, f \in ExecutionFees, e \in Expirations :
                ~create_limit_order(cur, t, m, tp, 0, c, l, is_long, f, e).ok
      /\ \A id \in DOMAIN positions :
           positions[id].market_id = m =>
             /\ \A t \in Traders, c \in {0} \cup CollateralSteps, z \in SizeSteps :
                  ~increase_position(cur, t, id, c, z).ok
             /\ \A t \in Traders :
                  SameAsUnpaused(m, close_position(cur, t, id),
                                 close_position(WithPause(cur, m, FALSE), t, id))
             /\ \A k \in Keepers :
                  SameAsUnpaused(m, liquidate_position(cur, k, id),
                                 liquidate_position(WithPause(cur, m, FALSE), k, id))
      /\ \A k \in Keepers, o \in DOMAIN orders :
           (orders[o].order_type = "Limit" /\ orders[o].market_id = m) =>
             ~execute_order(cur, k, o).ok

\* A position has just been closed on a market that is paused.
C12_Witness ==
  /\ last.op = "close_position" /\ last.ok
  /\ \E m \in Markets : markets[m].is_paused
  /\ positions = EmptyMap

\* The funding fields of a market.
FundingState(s, market_id) ==
  <<s.markets[market_id].funding_rate,
    s.markets[market_id].cumulative_funding_long,
    s.markets[market_id].cumulative_funding_short,
    s.markets[market_id].last_funding_update>>

\* C13: update_funding_rate succeeds only when at least funding_interval
\* seconds have passed since the market's last_funding_update and the market
\* is not paused; a rejected call leaves funding_rate, both cumulative
\* accumulators and last_funding_update as they were.
C13_FundingUpdateNeedsIntervalAndUnpaused ==
  \A k \in Keepers, m \in Markets :
    LET r == update_funding_rate(cur, k, m)
    IN /\ r.ok => /\ now - markets[m].last_funding_update >= FundingInterval
                  /\ ~markets[m].is_paused
       /\ ~r.ok => FundingState(Commit(cur, r), m) = FundingState(cur, m)

\* The funding rate the imbalance of a market calls for: the magnitude of
\* the squared imbalance, clamped, with the sign of long minus short.
SignedFundingRate(market) ==
  LET long_oi == market.long_open_interest
      short_oi == market.short_open_interest
      imbalance_bps == TDiv((long_oi - short_oi) * 10000, long_oi + short_oi)
      raw == TDiv(market.base_funding_rate * TDiv(imbalance_bps * imbalance_bps, 10000),
                  10000)
      magnitude == IF raw > market.max_funding_rate THEN market.max_funding_rate
                   ELSE raw
  IN IF long_oi + short_oi = 0 THEN 0
     ELSE IF long_oi > short_oi THEN magnitude
     ELSE IF long_oi < short_oi THEN -magnitude
     ELSE 0

\* C14: after a successful update_funding_rate the market's funding_rate has
\* the sign of long minus short open interest and the magnitude
\* min(base_funding_rate * (imbalance_bps^2 / 10000) / 10000,
\* max_funding_rate): positive when longs dominate, negative when shorts
\* dominate, 0 when there is no open interest.
C14_FundingRateSignedByImbalance ==
  \A k \in Keepers, m \in Markets :
    LET r == update_funding_rate(cur, k, m)
    IN r.ok => r.st.markets[m].funding_rate = SignedFundingRate(markets[m])

\* Funding rates an update can compute, of both signs.
FundingRates == {-100, -11, 0, 11, 100}

\* The accumulators of market `after` are those of `before` advanced by
\* |rate * elapsed| on the long side for a positive rate and on the short
\* side for a negative one, at most one of them changing and none falling.
AccruedOneSide(before, after, rate, elapsed) ==
  /\ rate > 0 =>
       /\ after.cumulative_funding_long =
            before.cumulative_funding_long + Abs(rate * elapsed)
       /\ after.cumulative_funding_short = before.cumulative_funding_short
  /\ rate < 0 =>
       /\ after.cumulative_funding_short =
            before.cumulative_funding_short + Abs(rate * elapsed)
       /\ after.cumulative_funding_long = before.cumulative_funding_long
  /\ \/ after.cumulative_funding_long = before.cumulative_funding_long
     \/ after.cumulative_funding_short = before.cumulative_funding_short
  /\ after.cumulative_funding_long >= before.cumulative_funding_long
  /\ after.cumulative_funding_short >= before.cumulative_funding_short

\* C15: a successful update_funding_rate adds |funding_rate * elapsed| to
\* the long accumulator when the new rate is positive and to the short
\* accumulator when it is negative and leaves the other one unchanged; no
\* update changes both and neither accumulator decreases.  The accumulator
\* step is also checked for every rate of FundingRates.
C15_FundingAccruesToOneSide ==
  \A k \in Keepers, m \in Markets :
    LET r == update_funding_rate(cur, k, m)
        elapsed == now - markets[m].last_funding_update
    IN r.ok =>
         /\ AccruedOneSide(markets[m], r.st.markets[m],
                           r.st.markets[m].funding_rate, elapsed)
         /\ \A rate \in FundingRates :
              AccruedOneSide(markets[m], accrue_funding(markets[m], rate, elapsed),
                             rate, elapsed)

\* C16: on every successful update_funding_rate of a market exactly one of
\* cumulative_funding_long and cumulative_funding_short advances, and it is
\* the accumulator of the paying side: the long one when longs dominate the
\* open interest, the short one when shorts dominate.
C16_ExactlyPayingSideAdvances ==
  \A k \in Keepers, m \in Markets :
    LET r == update_funding_rate(cur, k, m)
        long_advances == r.st.markets[m].cumulative_funding_long
                           > markets[m].cumulative_funding_long
        short_advances == r.st.markets[m].cumulative_funding_short
                            > markets[m].cumulative_funding_short
    IN r.ok =>
         /\ long_advances # short_advances
         /\ markets[m].long_open_interest > markets[m].short_open_interest
              => long_advances
         /\ markets[m].short_open_interest > markets[m].long_open_interest
              => short_advances

\* The ledger with the escrowed collateral of a Limit order back with its
\* trader, from which the trader could open the position directly.
WithCollateralReturned(order) ==
  transfer(cur, PM, order.trader, order.collateral).st

\* C17: executing a triggered Limit order is accepted exactly when
\* open_position by the order's trader with the order's collateral, leverage
\* and side is accepted on the same pool and market state, and then both
\* produce the same Position record, reserved liquidity, open interest and
\* collateral ledger entry.
C17_LimitExecutionIsOpenPosition ==
  \A k \in Keepers, o \in DOMAIN orders :
    LET order == orders[o]
        p == price[order.market_id]
        re == execute_order(cur, k, o)
        ro == open_position(WithCollateralReturned(order), order.trader,
                            order.market_id, order.collateral, order.leverage,
                            order.is_long)
        id == next_position_id
    IN (/\ order.order_type = "Limit"
        /\ ~(order.expiration > 0 /\ now > order.expiration)
        /\ check_order_trigger(order, p)
        /\ check_acceptable_price(order, p)) =>
         /\ re.ok = ro.ok
         /\ re.ok =>
              /\ re.ret = ro.ret
              /\ re.st.positions[id] = ro.st.positions[id]
              /\ re.st.reserved_liquidity = ro.st.reserved_liquidity
              /\ re.st.markets = ro.st.markets
              /\ get_position_collateral(re.st, id) = get_position_collateral(ro.st, id)

\* The open interest of a market on one side.
OpenInterest(s, market_id, is_long) ==
  IF is_long THEN s.markets[market_id].long_open_interest
  ELSE s.markets[market_id].short_open_interest

\* C18: a successful execution of a stop-loss or take-profit order with
\* close_percentage < 10000 keeps the position stored, takes
\* size * close_percentage / 10000 off its size, off reserved liquidity and
\* off the market's open interest on its side, and leaves every order still
\* attached to it with size new_size * close_percentage / 10000; with
\* close_percentage = 10000 the position is removed and its whole size is
\* released.
C18_PartialCloseShrinksAndRescales ==
  \A k \in Keepers, o \in DOMAIN orders :
    LET order == orders[o]
        id == order.position_id
        r == execute_order(cur, k, o)
    IN (order.order_type # "Limit" /\ id \in DOMAIN positions /\ r.ok) =>
         LET pos == positions[id]
             m == pos.market_id
             closed == IF order.close_percentage < 10000
                       THEN TDiv(pos.size * order.close_percentage, 10000)
                       ELSE pos.size
         IN /\ r.st.reserved_liquidity = reserved_liquidity - closed
            /\ OpenInterest(r.st, m, pos.is_long)
                 = OpenInterest(cur, m, pos.is_long) - closed
            /\ OpenInterest(r.st, m, ~pos.is_long) = OpenInterest(cur, m, ~pos.is_long)
            /\ IF order.close_percentage < 10000
               THEN /\ id \in DOMAIN r.st.positions
                    /\ r.st.positions[id].size = pos.size - closed
                    /\ \A x \in SeqToSet(get_position_orders_list(r.st, id)) :
                         /\ x \in DOMAIN r.st.orders
                         /\ r.st.orders[x].size =
                              TDiv((pos.size - closed) * r.st.orders[x].close_percentage,
                                   10000)
               ELSE id \notin DOMAIN r.st.positions

\* A half-size order has just been executed on a position that opened with
\* size 1000: the position is stored with size 500 and the order still
\* attached to it was rescaled to half of that.
C18_Witness ==
  /\ last.op = "execute_order" /\ last.ok
  /\ \E id \in DOMAIN positions :
       /\ positions[id].size = 500
       /\ \E x \in SeqToSet(get_position_orders_list(cur, id)) :
            /\ x \in DOMAIN orders
            /\ orders[x].close_percentage = 5000
            /\ orders[x].size = 250

\* Every position stored in ledger s has a positive size and collateral and
\* at least the minimum size.
PositionsWellSized(s) ==
  \A id \in DOMAIN s.positions :
    /\ s.positions[id].size > 0
    /\ s.positions[id].collateral > 0
    /\ s.positions[id].size >= MinPositionSize

\* C19: every stored position has size > 0, collateral > 0 and
\* size >= min_position_size, in every reachable state and after any further
\* decrease_position or order execution from it.
C19_StoredPositionsWellSized ==
  /\ PositionsWellSized(cur)
  /\ \A t \in Traders, id \in DOMAIN positions, c \in {0} \cup CollateralSteps,
        z \in {0} \cup SizeSteps :
       LET r == decrease_position(cur, t, id, c, z)
       IN r.ok => PositionsWellSized(r.st)
  /\ \A k \in Keepers, o \in DOMAIN orders :
       LET r == execute_order(cur, k, o)
       IN r.ok => PositionsWellSized(r.st)

\* C20: in every reachable state of the pool total_shares is 0 exactly when
\* total_deposits is 0, whatever deposits and withdrawals the liquidity
\* providers make and however trading has moved the pool balance.
C20_SharesZeroIffDepositsZero == (total_shares = 0) <=> (total_deposits = 0)

\* The last shares have just been redeemed for a pool balance that trading
\* had moved away from the 1300 deposited, and both totals are 0.
C20_Witness ==
  /\ last.op = "withdraw" /\ last.ok
  /\ total_shares = 0 /\ total_deposits = 0
  /\ next_position_id > 1
  /\ last.ret # 1300

\* C21: in every pool state in which both calls succeed, a deposit of a
\* tokens that mints s shares, followed at once by a withdrawal of those s
\* shares by the same user, pays back exactly a tokens.
C21_DepositThenWithdrawReturnsAmount ==
  \A u \in PoolUsers, a \in PoolDepositAmounts :
    LET rd == deposit(cur, u, a)
        rw == withdraw(rd.st, u, rd.ret)
    IN (rd.ok /\ rw.ok) => rw.ret = a

\* Share amounts tried against the withdrawal bounds: those the providers
\* redeem, and one whose payout fits the available liquidity but not the
\* minimum reserve.
ReserveProbeShares == PoolShareAmounts \cup {250}

\* C22: a successful withdraw pays shares * balance / total_shares, which is
\* at most balance - reserved, and leaves balance_after - reserved at least
\* min_liquidity_reserve_ratio * balance_after / 10000; a withdraw that would
\* break either bound fails and leaves shares, deposits and balances as they
\* were.
C22_WithdrawKeepsLiquidityBounds ==
  \A u \in PoolUsers, sh \in ReserveProbeShares :
    total_shares > 0 =>
      LET r == withdraw(cur, u, sh)
          bal == balance[POOL]
          tokens == TDiv(sh * bal, total_shares)
          after == bal - tokens
          floor == TDiv(after * MinLiquidityReserveRatio, 10000)
          within == tokens <= bal - reserved_liquidity
                    /\ after - reserved_liquidity >= floor
      IN /\ r.ok => /\ within
                    /\ r.ret = tokens
                    /\ r.st.balance[POOL] = after
                    /\ r.st.balance[u] = balance[u] + tokens
                    /\ r.st.shares[u] = shares[u] - sh
                    /\ r.st.total_shares = total_shares - sh
         /\ ~within => ~r.ok /\ Commit(cur, r) = cur

\* A provider has just redeemed shares while liquidity is reserved for an
\* open position, and a redemption of 250 shares would now fit the available
\* liquidity but not the minimum reserve.
C22_Witness ==
  /\ last.op = "withdraw" /\ last.ok /\ last.ret > 0
  /\ reserved_liquidity > 0 /\ total_shares > 0
  /\ LET tokens == TDiv(250 * balance[POOL], total_shares)
         after == balance[POOL] - tokens
     IN /\ tokens <= balance[POOL] - reserved_liquidity
        /\ after - reserved_liquidity < TDiv(after * MinLiquidityReserveRatio, 10000)
        /\ ~withdraw(cur, "lp1", 250).ok

\* Pool utilization of a ledger state as the specification states it:
\* reserved * 10000 / pool balance, compared with the configured ceiling.
WithinUtilizationCeiling(s) ==
  /\ s.reserved_liquidity > 0 => s.balance[POOL] > 0
  /\ s.balance[POOL] > 0 =>
       TDiv(s.reserved_liquidity * 10000, s.balance[POOL]) <= MaxUtilizationRatio

\* C23: no operation that increases reserved liquidity (open_position, the
\* execution of a limit order, increase_position with added size) completes
\* with pool utilization above max_utilization_ratio.
C23_ReservingStaysUnderCeiling ==
  /\ \A t \in Traders, m \in Markets, c \in Collaterals, l \in Leverages,
        is_long \in BOOLEAN :
       LET r == open_position(cur, t, m, c, l, is_long)
       IN r.ok => WithinUtilizationCeiling(r.st)
  /\ \A k \in Keepers, o \in DOMAIN orders :
       LET r == execute_order(cur, k, o)
       IN (r.ok /\ orders[o].order_type = "Limit") =>
            WithinUtilizationCeiling(r.st)
  /\ \A t \in Traders, id \in DOMAIN positions, z \in SizeSteps :
       LET r == increase_position(cur, t, id, 0, z)
       IN r.ok => WithinUtilizationCeiling(r.st)

\* Trigger prices tried against the creation checks: every price around the
\* oracle prices and the liquidation prices of the positions.
TriggerProbes == 85 .. 115

\* C24: create_stop_loss succeeds only when the trigger lies strictly
\* between the position's liquidation_price and the current price (below the
\* price for a long, above it for a short), and create_take_profit only when
\* the trigger lies strictly beyond the current price in the profitable
\* direction; a rejected creation escrows no fee and stores no order.
C24_AttachedTriggersOnValidSide ==
  \A t \in Traders, id \in DOMAIN positions, tp \in TriggerProbes,
     cp \in ClosePercentages, f \in ExecutionFees :
    LET position == positions[id]
        p == price[position.market_id]
        liq == position.liquidation_price
        rs == create_stop_loss(cur, t, id, tp, 0, cp, f, 0)
        rt == create_take_profit(cur, t, id, tp, 0, cp, f, 0)
        stop_side == IF position.is_long THEN liq < tp /\ tp < p
                     ELSE p < tp /\ tp < liq
        profit_side == IF position.is_long THEN tp > p ELSE tp < p
    IN /\ rs.ok => stop_side
       /\ rt.ok => profit_side
       /\ ~stop_side =>
            /\ ~rs.ok
            /\ Commit(cur, rs).balance = balance
            /\ Commit(cur, rs).orders = orders
       /\ ~profit_side =>
            /\ ~rt.ok
            /\ Commit(cur, rt).balance = balance
            /\ Commit(cur, rt).orders = orders

\* A stop-loss has just been stored with its trigger strictly between the
\* liquidation price and the current price of a position, and the same
\* request with the trigger on the liquidation price is rejected although
\* that trigger is on the losing side of the current price.
C24_Witness ==
  /\ last.op = "create_stop_loss" /\ last.ok
  /\ last.id \in DOMAIN orders
  /\ LET order == orders[last.id]
         id == order.position_id
     IN /\ id \in DOMAIN positions
        /\ LET position == positions[id]
               p == price[position.market_id]
               liq == position.liquidation_price
           IN /\ IF position.is_long
                 THEN liq < order.trigger_price /\ order.trigger_price < p
                 ELSE p < order.trigger_price /\ order.trigger_price < liq
              /\ ~create_stop_loss(cur, position.trader, id, liq, 0, 10000, 2, 0).ok
              /\ create_stop_loss(cur, position.trader, id,
                                  IF position.is_long THEN liq + 1 ELSE liq - 1,
                                  0, 10000, 2, 0).ok

\* C25: update_open_interest, reserve_liquidity, release_liquidity,
\* deposit_position_collateral, record_position_collateral,
\* withdraw_position_collateral and settle_trader_pnl change state only when
\* the caller is the registered position manager: a call by any other
\* address, or before a position manager is registered, fails and leaves the
\* state unchanged.
C25_RestrictedToPositionManager ==
  \A c \in Accounts \cup {ADMIN} :
    /\ (pool_position_manager = NONE \/ c # pool_position_manager) =>
         \A p \in PositionIds, t \in Traders :
           /\ \A z \in SizeSteps, a \in CollateralSteps :
                LET r == reserve_liquidity(cur, c, p, z, a)
                IN ~r.ok /\ Commit(cur, r) = cur
           /\ \A z \in SizeSteps :
                LET r == release_liquidity(cur, c, p, z)
                IN ~r.ok /\ Commit(cur, r) = cur
           /\ \A a \in CollateralSteps :
                /\ LET r == deposit_position_collateral(cur, c, p, t, a)
                   IN ~r.ok /\ Commit(cur, r) = cur
                /\ LET r == record_position_collateral(cur, c, p, a)
                   IN ~r.ok /\ Commit(cur, r) = cur
                /\ LET r == withdraw_position_collateral(cur, c, p, t, a)
                   IN ~r.ok /\ Commit(cur, r) = cur
           /\ \A a \in PnlAmounts :
                LET r == settle_trader_pnl(cur, c, t, a)
                IN ~r.ok /\ Commit(cur, r) = cur
    /\ (market_position_manager = NONE \/ c # market_position_manager) =>
         \A m \in Markets, is_long \in BOOLEAN, d \in SizeDeltas :
           LET r == update_open_interest(cur, c, m, is_long, d)
           IN ~r.ok /\ Commit(cur, r) = cur

\* The position manager is registered with both contracts and has reserved
\* liquidity and recorded collateral for an open position; a direct call has
\* just been rejected, and the request the pool accepts from the position
\* manager is refused to an outside account.
C25_Witness ==
  /\ pool_position_manager = PM /\ market_position_manager = PM
  /\ positions # EmptyMap /\ reserved_liquidity > 0
  /\ ~last.ok
  /\ release_liquidity(cur, PM, 1, 500).ok
  /\ ~release_liquidity(cur, "t2", 1, 500).ok
  /\ update_open_interest(cur, PM, 0, positions[1].is_long, -500).ok
  /\ ~update_open_interest(cur, "k1", 0, positions[1].is_long, -500).ok

\* Before any registration a position cannot be opened, because the pool and
\* the market manager refuse the position manager itself.
C25_WitnessUnregistered ==
  /\ pool_position_manager = NONE /\ market_position_manager = NONE
  /\ ~last.ok
  /\ ~open_position(cur, "t1", 0, 100, 10, TRUE).ok

\* C26: only the trader who owns a position can close, increase or decrease
\* it or attach a stop-loss or take-profit to it, and only the trader of an
\* order can cancel it; the same call by any other address fails and leaves
\* the position, its orders and all balances unchanged.
C26_OnlyOwnerActsOnPositionAndOrder ==
  \A c \in Accounts :
    /\ \A id \in DOMAIN positions :
         c # positions[id].trader =>
           /\ LET r == close_position(cur, c, id)
              IN ~r.ok /\ Commit(cur, r) = cur
           /\ \A a \in {0} \cup CollateralSteps, z \in {0} \cup SizeSteps :
                /\ LET r == increase_position(cur, c, id, a, z)
                   IN ~r.ok /\ Commit(cur, r) = cur
                /\ LET r == decrease_position(cur, c, id, a, z)
                   IN ~r.ok /\ Commit(cur, r) = cur
           /\ \A tp \in StopLossTriggers \cup TakeProfitTriggers,
                 cp \in ClosePercentages, f \in ExecutionFees :
                /\ LET r == create_stop_loss(cur, c, id, tp, 0, cp, f, 0)
                   IN ~r.ok /\ Commit(cur, r) = cur
                /\ LET r == create_take_profit(cur, c, id, tp, 0, cp, f, 0)
                   IN ~r.ok /\ Commit(cur, r) = cur
    /\ \A o \in DOMAIN orders :
         c # orders[o].trader =>
           LET r == cancel_order(cur, c, o)
           IN ~r.ok /\ Commit(cur, r) = cur

\* A trader holds a position with an order attached and another order
\* pending; a call has just been rejected; the owner could close the position
\* and cancel the order, which another trader holding tokens cannot.
C26_Witness ==
  /\ ~last.ok
  /\ \E id \in DOMAIN positions, o \in DOMAIN orders :
       /\ positions[id].trader = "t1" /\ orders[o].trader = "t1"
       /\ orders[o].position_id = id
       /\ close_position(cur, "t1", id).ok
       /\ ~close_position(cur, "t2", id).ok
       /\ cancel_order(cur, "t1", o).ok
       /\ ~cancel_order(cur, "t2", o).ok
       /\ balance["t2"] > 0

\* C27: open_position followed at once by close_position of the new
\* position by the same trader, at the same oracle price and with no time
\* elapsed, returns a PnL of 0 and puts the trader's balance, the pool's
\* balance, reserved liquidity and the market's open interest back to their
\* values before the open, whatever the starting state (funding accumulators
\* included).
C27_OpenThenCloseIsNeutral ==
  \A t \in Traders, m \in Markets, c \in Collaterals, l \in Leverages,
     is_long \in BOOLEAN :
    LET ro == open_position(cur, t, m, c, l, is_long)
        rc == close_position(ro.st, t, ro.ret)
    IN ro.ok =>
         /\ rc.ok
         /\ rc.ret = 0
         /\ rc.st.balance[t] = balance[t]
         /\ rc.st.balance[POOL] = balance[POOL]
         /\ rc.st.reserved_liquidity = reserved_liquidity
         /\ OpenInterest(rc.st, m, TRUE) = OpenInterest(cur, m, TRUE)
         /\ OpenInterest(rc.st, m, FALSE) = OpenInterest(cur, m, FALSE)

\* The funding accumulators of the market have advanced while an earlier
\* position was open; a trader can now open a position, whose funding
\* snapshot is then non-zero, and closing it at once returns a PnL of 0.
C27_Witness ==
  /\ markets[0].cumulative_funding_long > 0 \/ markets[0].cumulative_funding_short > 0
  /\ next_position_id > 1
  /\ \E is_long \in BOOLEAN :
       LET ro == open_position(cur, "t1", 0, 100, 10, is_long)
           rc == close_position(ro.st, "t1", ro.ret)
       IN /\ ro.ok /\ rc.ok /\ rc.ret = 0
          /\ ro.st.positions[ro.ret].entry_funding_long > 0
              \/ ro.st.positions[ro.ret].entry_funding_short > 0
          /\ ro.st.balance["t1"] = balance["t1"] - 100
          /\ rc.st.balance["t1"] = balance["t1"]

\* The order id is in none of the order indexes of ledger state s.
Unindexed(s, o) ==
  /\ o \notin DOMAIN s.orders
  /\ \A t \in DOMAIN s.user_orders : o \notin SeqToSet(s.user_orders[t])
  /\ \A m \in DOMAIN s.market_orders : o \notin SeqToSet(s.market_orders[m])
  /\ \A p \in DOMAIN s.position_orders : o \notin SeqToSet(s.position_orders[p])

\* C28: every successful execute_order raises the keeper's token balance by
\* exactly the execution_fee of the executed order (on top of what the
\* execution pays the same address as the order's trader, when the trader
\* executes the order themselves) and removes the order from storage and
\* from the user, market and position order indexes, so that the same order
\* id can never be executed or cancelled again.
C28_ExecutionPaysFeeAndRemovesOrder ==
  /\ \A o \in DOMAIN orders : o < next_order_id
  /\ \A k \in Accounts \ {POOL, PM}, o \in DOMAIN orders :
       LET order == orders[o]
           r == execute_order(cur, k, o)
           other == execute_order(cur, "k1", o)
       IN r.ok =>
            /\ k # order.trader =>
                 r.st.balance[k] = balance[k] + order.execution_fee
            /\ k = order.trader =>
                 /\ other.ok
                 /\ r.st.balance[k] =
                      other.st.balance[k] + order.execution_fee
            /\ Unindexed(r.st, o)
            /\ r.st.next_order_id >= next_order_id
            /\ \A c \in Accounts :
                 /\ ~execute_order(r.st, c, o).ok
                 /\ ~cancel_order(r.st, c, o).ok

\* The keeper has just executed an order and holds its execution fee; the
\* order is gone from every index and its trader can no longer cancel it.
C28_Witness ==
  /\ last.op = "execute_order" /\ last.ok
  /\ balance[last.caller] = 2
  /\ last.id < next_order_id
  /\ Unindexed(cur, last.id)
  /\ ~cancel_order(cur, "t1", last.id).ok
  /\ ~execute_order(cur, last.caller, last.id).ok

\* The liquidation price the specification gives for a position's current
\* entry price, collateral, size and side.
StatedLiquidationPrice(position) ==
  LET r == TDiv(position.collateral * 10000, position.size)
  IN IF position.is_long
     THEN TDiv(position.entry_price * (10000 - r + 100), 10000)
     ELSE TDiv(position.entry_price * (10000 + r - 100), 10000)

PositionsPriced(s) ==
  \A id \in DOMAIN s.positions :
    /\ s.positions[id].size > 0
    /\ s.positions[id].liquidation_price = StatedLiquidationPrice(s.positions[id])

\* C29: after any sequence of open, increase, decrease and partial
\* stop-loss or take-profit operations, the liquidation_price of every stored
\* position equals the stated formula applied to the position's current
\* entry_price, collateral, size and side.
C29_LiquidationPriceFollowsPosition ==
  /\ PositionsPriced(cur)
  /\ \A t \in Traders, id \in DOMAIN positions,
        a \in {0} \cup CollateralSteps, z \in {0} \cup SizeSteps :
       /\ LET r == increase_position(cur, t, id, a, z)
          IN r.ok => PositionsPriced(r.st)
       /\ LET r == decrease_position(cur, t, id, a, z)
          IN r.ok => PositionsPriced(r.st)
  /\ \A k \in Keepers, o \in DOMAIN orders :
       LET r == execute_order(cur, k, o)
       IN r.ok => PositionsPriced(r.st)

\* A position has just been decreased or increased or partly closed by an
\* order, its collateral-to-size ratio or entry price is no longer that of
\* the open, and its stored liquidation price has moved with it.
C29_Witness ==
  /\ last.ok
  /\ last.op \in {"increase_position", "decrease_position", "execute_order"}
  /\ \E id \in DOMAIN positions :
       /\ positions[id].liquidation_price \notin {91, 109}
       /\ positions[id].liquidation_price = StatedLiquidationPrice(positions[id])
       /\ positions[id].collateral * 10 # positions[id].size
          \/ positions[id].entry_price # 100

\* Oracle prices tried against the liquidation threshold of a position.
PriceProbes == 80 .. 120

\* No funding has accrued for the position and no borrowing fee is due.
NoCharges(position) ==
  /\ now = position.last_interaction
  /\ markets[position.market_id].cumulative_funding_long = position.entry_funding_long
  /\ markets[position.market_id].cumulative_funding_short = position.entry_funding_short

\* The oracle price has reached the stored liquidation price of the position.
ReachedLiquidationPrice(position, p) ==
  IF position.is_long THEN p <= position.liquidation_price
  ELSE p >= position.liquidation_price

\* C30: with no funding accrued and no borrowing fee, a stored position
\* (whose collateral is recorded in full by the pool) can be liquidated at
\* oracle price p exactly when p has reached its stored liquidation_price:
\* p <= liquidation_price for a long, p >= liquidation_price for a short.
C30_LiquidatableExactlyAtLiquidationPrice ==
  \A k \in Keepers, id \in DOMAIN positions, p \in PriceProbes :
    LET position == positions[id]
        at_p == [cur EXCEPT !.price[position.market_id] = p]
    IN (/\ NoCharges(position)
        /\ get_position_collateral(cur, id) = position.collateral) =>
         (liquidate_position(at_p, k, id).ok
            <=> ReachedLiquidationPrice(position, p))

\* The slice of PnL the specification realizes when size_reduced of the
\* position's size is closed: total_pnl * size_reduced / size.
StatedRealizedPnl(s, position, size_reduced) ==
  TDiv(calculate_pnl(s, position, s.price[position.market_id]) * size_reduced,
       position.size)

\* C31: reducing a position's size by size_reduced, through decrease_position
\* or a partial stop-loss/take-profit, realizes exactly
\* total_pnl * size_reduced / size (the position's collateral moves by that
\* amount, and a partial close returns it), and the call fails with no state
\* change when collateral + realized <= 0.
C31_ReductionRealizesProportionalPnl ==
  /\ \A id \in DOMAIN positions, z \in SizeSteps :
       LET position == positions[id]
           realized == StatedRealizedPnl(cur, position, z)
           r == decrease_position(cur, position.trader, id, 0, z)
       IN z < position.size =>
            /\ r.ok => r.st.positions[id].collateral = position.collateral + realized
            /\ position.collateral + realized <= 0 =>
                 ~r.ok /\ Commit(cur, r) = cur
  /\ \A k \in Keepers, o \in DOMAIN orders :
       LET order == orders[o]
           r == execute_order(cur, k, o)
       IN (/\ order.order_type # "Limit"
           /\ order.position_id \in DOMAIN positions
           /\ order.close_percentage < 10000) =>
            LET position == positions[order.position_id]
                z == TDiv(position.size * order.close_percentage, 10000)
                realized == StatedRealizedPnl(cur, position, z)
            IN /\ r.ok =>
                    /\ r.ret = realized
                    /\ r.st.positions[order.position_id].collateral =
                         position.collateral + realized
               /\ position.collateral + realized <= 0 =>
                    ~r.ok /\ Commit(cur, r) = cur

\* The funding snapshots of the position equal the market's current
\* cumulative funding in ledger state s.
FundingSnapshotCurrent(s, id) ==
  LET position == s.positions[id]
  IN /\ position.entry_funding_long =
          get_cumulative_funding(s, position.market_id, TRUE)
     /\ position.entry_funding_short =
          get_cumulative_funding(s, position.market_id, FALSE)

\* C32: every successful increase_position and decrease_position sets the
\* position's entry_funding_long and entry_funding_short to the market's
\* current cumulative funding values, whether the call changes size,
\* collateral or both.
C32_ModificationRefreshesFundingSnapshot ==
  \A id \in DOMAIN positions, a \in {0} \cup CollateralSteps,
     z \in {0} \cup SizeSteps :
    /\ LET r == increase_position(cur, positions[id].trader, id, a, z)
       IN r.ok => FundingSnapshotCurrent(r.st, id)
    /\ LET r == decrease_position(cur, positions[id].trader, id, a, z)
       IN r.ok => FundingSnapshotCurrent(r.st, id)

\* The pool records no collateral for a position id that is not stored.
NoOrphanCollateral(s) ==
  \A p \in DOMAIN s.position_collateral :
    p \notin DOMAIN s.positions => get_position_collateral(s, p) = 0

\* C33: after close_position, liquidate_position or a full stop-loss or
\* take-profit close of a position, the pool's position_collateral entry of
\* that position reads as 0, whether it closed at a profit or at a loss;
\* position_collateral entries exist only for stored positions.
C33_ClosedPositionLeavesNoCollateralEntry ==
  /\ NoOrphanCollateral(cur)
  /\ \A id \in DOMAIN positions :
       LET r == close_position(cur, positions[id].trader, id)
       IN r.ok => get_position_collateral(r.st, id) = 0
  /\ \A k \in Keepers, id \in DOMAIN positions :
       LET r == liquidate_position(cur, k, id)
       IN r.ok => get_position_collateral(r.st, id) = 0
  /\ \A k \in Keepers, o \in DOMAIN orders :
       LET r == execute_order(cur, k, o)
           id == orders[o].position_id
       IN (r.ok /\ orders[o].order_type # "Limit" /\ id \notin DOMAIN r.st.positions)
            => get_position_collateral(r.st, id) = 0

\* C34: in every reachable state the pool's position_collateral entry of
\* every stored position equals the collateral field of the Position record,
\* after any sequence of open_position, limit-order execution,
\* increase_position, decrease_position and partial stop-loss/take-profit
\* executions.
C34_CollateralLedgerMatchesPositions ==
  \A id \in DOMAIN positions :
    get_position_collateral(cur, id) = positions[id].collateral

\* C35: no sequence of successful operations leaves a stored position that
\* can no longer be closed: close_position by the owner succeeds whenever the
\* pool holds enough tokens for the payout, and liquidate_position succeeds
\* whenever the position is under its maintenance margin.
C35_StoredPositionsStayClosable ==
  \A id \in DOMAIN positions :
    LET position == positions[id]
        pnl == calculate_pnl(cur, position, price[position.market_id])
        payout == IF position.collateral + pnl > 0 THEN position.collateral + pnl
                  ELSE 0
    IN /\ balance[POOL] >= payout =>
            close_position(cur, position.trader, id).ok
       /\ position.collateral + pnl <= TDiv(position.size * 100, 10000) =>
            \A k \in Keepers : liquidate_position(cur, k, id).ok

\* What the position manager holds in escrow for a set of stored orders: the
\* execution fee of each and, for a limit order, its collateral.
RECURSIVE SumOfEscrow(_, _)
SumOfEscrow(os, ids) ==
  IF ids = {} THEN 0
  ELSE LET id == CHOOSE x \in ids : TRUE
           held == IF os[id].order_type = "Limit"
                   THEN os[id].execution_fee + os[id].collateral
                   ELSE os[id].execution_fee
       IN held + SumOfEscrow(os, ids \ {id})

\* C36: the position manager's own token balance equals the sum over the
\* stored orders of execution_fee plus, for limit orders, collateral; it is 0
\* when no order is stored, so no escrowed amount is paid out twice.
C36_ManagerBalanceEqualsEscrow ==
  balance[PM] = SumOfEscrow(orders, DOMAIN orders)

\* An order was executed while another order still holds its escrow.
C36_Witness ==
  /\ last.op = "execute_order"
  /\ last.ok
  /\ \E o \in DOMAIN orders : orders[o].order_type = "Limit"
  /\ balance[PM] = SumOfEscrow(orders, DOMAIN orders)
  /\ balance[PM] > 0

\* A list that holds each of its ids once.
ListedOnce(list) == Cardinality(SeqToSet(list)) = Len(list)

\* C37: the indexes mirror the stores: user_positions lists the stored
\* positions a trader owns, user_orders and market_orders the stored orders
\* of that trader and of that market, position_orders the stored stop-loss
\* and take-profit orders attached to a position, each id at most once.
C37_IndexesMirrorStores ==
  /\ \A t \in Traders :
       /\ ListedOnce(user_positions[t])
       /\ SeqToSet(user_positions[t])
            = {id \in DOMAIN positions : positions[id].trader = t}
       /\ ListedOnce(user_orders[t])
       /\ SeqToSet(user_orders[t]) = {o \in DOMAIN orders : orders[o].trader = t}
  /\ \A m \in Markets :
       /\ ListedOnce(market_orders[m])
       /\ SeqToSet(market_orders[m])
            = {o \in DOMAIN orders : orders[o].market_id = m}
  /\ \A id \in PositionIds :
       /\ ListedOnce(get_position_orders_list(cur, id))
       /\ SeqToSet(get_position_orders_list(cur, id))
            = {o \in DOMAIN orders : /\ orders[o].order_type # "Limit"
                                     /\ orders[o].position_id = id}

\* An order was executed or cancelled while another order of the same trader
\* and market stays stored and listed.
C37_Witness ==
  /\ last.op \in {"execute_order", "cancel_order"}
  /\ last.ok
  /\ \E o \in DOMAIN orders :
       /\ SeqToSet(user_orders[orders[o].trader]) = {o}
       /\ SeqToSet(market_orders[orders[o].market_id]) = {o}
       /\ next_order_id > 2

\* C38: every stored stop-loss or take-profit order references a currently
\* stored position with the same trader, market and side; no operation
\* removes a position while leaving an order attached to it.
C38_AttachedOrdersReferenceStoredPositions ==
  \A o \in DOMAIN orders :
    orders[o].order_type # "Limit" =>
      /\ orders[o].position_id \in DOMAIN positions
      /\ positions[orders[o].position_id].trader = orders[o].trader
      /\ positions[orders[o].position_id].market_id = orders[o].market_id
      /\ positions[orders[o].position_id].is_long = orders[o].is_long

\* A position with two attached orders was removed by a close, a liquidation
\* or a full stop-loss or take-profit execution.
C38_Witness ==
  /\ last.op \in {"close_position", "liquidate_position", "execute_order"}
  /\ last.ok
  /\ next_position_id > 1
  /\ DOMAIN positions = {}
  /\ next_order_id = 3
  /\ DOMAIN orders = {}

\* A partial execution left the position stored with its other order attached.
C38_WitnessPartial ==
  /\ last.op = "execute_order"
  /\ last.ok
  /\ \E o \in DOMAIN orders :
       /\ orders[o].order_type # "Limit"
       /\ orders[o].position_id \in DOMAIN positions

\* C39: an increase_position or decrease_position that changes only the
\* collateral leaves the position's unrealized PnL at the current price and
\* time unchanged: the funding and borrowing fees accrued so far are neither
\* forgiven nor charged.
C39_CollateralOnlyKeepsUnrealizedPnl ==
  \A id \in DOMAIN positions, c \in CollateralSteps :
    LET position == positions[id]
        pnl == calculate_pnl(cur, position, price[position.market_id])
        inc == increase_position(cur, position.trader, id, c, 0)
        dec == decrease_position(cur, position.trader, id, c, 0)
    IN /\ inc.ok =>
            calculate_pnl(inc.st, inc.st.positions[id], price[position.market_id]) = pnl
       /\ dec.ok =>
            calculate_pnl(dec.st, dec.st.positions[id], price[position.market_id]) = pnl

\* The shares of a set of accounts, added up.
RECURSIVE SumOfShares(_, _)
SumOfShares(sh, users) ==
  IF users = {} THEN 0
  ELSE LET u == CHOOSE x \in users : TRUE
       IN sh[u] + SumOfShares(sh, users \ {u})

\* C40: total_shares equals the sum of the shares of all liquidity providers,
\* so each provider's shares are at most total_shares, and withdraw never
\* burns more shares than the caller holds.
C40_TotalSharesIsSumOfShares ==
  /\ total_shares = SumOfShares(shares, Accounts)
  /\ \A u \in Accounts : shares[u] >= 0 /\ shares[u] <= total_shares
  /\ \A u \in PoolUsers, sh \in PoolShareAmounts :
       LET r == withdraw(cur, u, sh)
       IN r.ok => /\ sh <= shares[u]
                  /\ r.st.shares[u] = shares[u] - sh
                  /\ r.st.total_shares = total_shares - sh

\* Two providers hold shares after one of them withdrew part of its own.
C40_Witness ==
  /\ last.op = "withdraw"
  /\ last.ok
  /\ \E u \in PoolUsers, v \in PoolUsers :
       /\ u # v
       /\ shares[u] > 0
       /\ shares[v] > 0
       /\ shares[last.caller] < total_shares

====
